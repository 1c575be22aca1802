------------------------------ MODULE Settings ------------------------------
(***************************************************************************)
(* config.Load of internal/config/config.go (the server) and Load and      *)
(* Validate of internal/cliconfig/cliconfig.go (the command line), as      *)
(* functions of the environment and of the configuration file.             *)
(*                                                                         *)
(* An environment is a record with a field for each variable; "" stands    *)
(* for unset or empty, " " for any blank text.  Times are in seconds.  API *)
(* keys of the main endpoint and log levels change nothing below.          *)
(***************************************************************************)
EXTENDS Integers

NoDuration == -1

\* What the two parsers of durations make of the texts used for them.
Atoi(text) == IF text = "45" THEN 45 ELSE NoDuration

ParseDuration(text) ==
    CASE text = "0s" -> 0 [] text = "12s" -> 12 [] text = "45s" -> 45
      [] OTHER -> NoDuration

(***************************************************************************)
(* The server: environment variables over fixed defaults                   *)
(***************************************************************************)
Getenv(value, fallback) == IF value # "" THEN value ELSE fallback

GetenvBool(value) == value \in {"1", "true", "yes", "on"}

GetenvDuration(value, fallback) ==
    CASE Atoi(value) # NoDuration -> Atoi(value)
      [] ParseDuration(value) # NoDuration -> ParseDuration(value)
      [] OTHER -> fallback

\* A bug the properties must see: the last fallback of the user is forgotten.
LoadWithoutDefaultUser(env) ==
    [baseURL    |-> env.MEM0_BASE_URL,
     userID     |-> Getenv(env.MEM0_USER_ID, env.MEM0_DEFAULT_USER_ID),
     transport  |-> Getenv(env.MCP_TRANSPORT, "stdio"),
     timeout    |-> GetenvDuration(env.MEM0_TIMEOUT, 120),
     dualWrite  |-> GetenvBool(env.MEM0_DUAL_WRITE),
     cloudKey   |-> env.MEM0_CLOUD_API_KEY,
     readSource |-> Getenv(env.MEM0_READ_SOURCE, "oss"),
     backupURL  |-> env.MEM0_BACKUP_URL,
     backupKey  |-> env.MEM0_BACKUP_API_KEY]

\* AppID is read as UserID is; CloudURL has a default and is never empty.
Load(env) ==
    [baseURL    |-> env.MEM0_BASE_URL,
     userID     |-> Getenv(env.MEM0_USER_ID,
                        Getenv(env.MEM0_DEFAULT_USER_ID, "default-user")),
     transport  |-> Getenv(env.MCP_TRANSPORT, "stdio"),
     timeout    |-> GetenvDuration(env.MEM0_TIMEOUT, 120),
     dualWrite  |-> GetenvBool(env.MEM0_DUAL_WRITE),
     cloudKey   |-> env.MEM0_CLOUD_API_KEY,
     readSource |-> Getenv(env.MEM0_READ_SOURCE, "oss"),
     backupURL  |-> env.MEM0_BACKUP_URL,
     backupKey  |-> env.MEM0_BACKUP_API_KEY]

DualWriteEnabled(c) == c.dualWrite /\ c.cloudKey # ""

BackupEnabled(c) == c.backupURL # "" /\ c.backupKey # ""

(***************************************************************************)
(* The command line: environment variables over a file                     *)
(***************************************************************************)
Blank(text) == text \in {"", " "}

FirstNonEmpty(a, b) == IF ~Blank(a) THEN a ELSE IF ~Blank(b) THEN b ELSE ""

ParseTimeoutOrDefault(value, fallback) ==
    IF ParseDuration(value) # NoDuration THEN ParseDuration(value) ELSE fallback

FromEnv(env) ==
    [baseURL |-> env.MEM0_BASE_URL,
     userID  |-> FirstNonEmpty(env.MEM0_USER_ID, env.MEM0_DEFAULT_USER_ID),
     timeout |-> ParseTimeoutOrDefault(env.MEM0_TIMEOUT, 30)]

\* A bug the properties must see: what the file says overrides.
MergeFileWins(env, file) ==
    LET r == FromEnv(env) IN
    [r EXCEPT !.baseURL = Getenv(file.baseURL, @),
              !.userID = Getenv(file.userID, @),
              !.timeout = ParseTimeoutOrDefault(file.request, @)]

\* The file fills what is still empty; its timeout counts unless MEM0_TIMEOUT
\* holds anything, a text that does not parse included.
Merge(env, file) ==
    LET r == FromEnv(env) IN
    [r EXCEPT !.baseURL = Getenv(@, file.baseURL),
              !.userID = Getenv(@, file.userID),
              !.timeout = IF env.MEM0_TIMEOUT = ""
                             THEN ParseTimeoutOrDefault(file.request, @) ELSE @]

\* A bug the properties must see: only the parser's error is reported.
LoadFailsToParse(file) == file.state = "unparsable"

\* A missing file is no error; one that others may read, that cannot be read
\* or that does not parse is.
LoadFails(file) == file.state \in {"insecure", "unreadable", "unparsable"}

Resolved(env, file) ==
    IF file.state = "missing" THEN FromEnv(env) ELSE Merge(env, file)

Valid(r) == ~Blank(r.baseURL)

\* NewClient replaces a zero timeout, whoever configured it.
ClientTimeout(timeout) == IF timeout = 0 THEN 120 ELSE timeout
=============================================================================
