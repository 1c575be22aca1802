------------------------------ MODULE Program ------------------------------
(***************************************************************************)
(* One run of the mem0-mcp-go process: main and run of                     *)
(* cmd/mem0-mcp-go/main.go, the server's life cycle in                     *)
(* internal/server/server.go and the command line of internal/clicmd, from *)
(* its arguments and environment to its exit code.  What a call does at    *)
(* its targets is the subject of Requests and DualWriter; here it is the   *)
(* last request sent and its outcome.                                      *)
(***************************************************************************)
EXTENDS Settings

CONSTANTS
    Environments, \* the environments the process may be started in
    Files,        \* what --config may name: [state, baseURL, userID, request]
    Commands      \* its arguments: [surface, name, flags, user]

ASSUME FilesAssumption ==
    \A f \in Files :
        f.state \in {"missing", "good", "insecure", "unreadable", "unparsable"}

Subcommands ==
    {"add", "search", "get", "get-memories", "delete", "list-entities", "health"}

\* Subcommands that send a user id with their request.
Scoped == {"add", "search", "get-memories"}

VARIABLES
    command, env, file, \* chosen at the start
    phase,    \* how far the process is
    cfg,      \* its configuration once loaded
    ctx,      \* the context of signal.NotifyContext
    closer,   \* the goroutine of runSSE that shuts the server down
    request,  \* the last request sent: what it asks of which targets, for which
              \* user or id, and the user its caller asked for
    outcome,  \* what became of the request of a subcommand
    report,   \* the dual_write part of the last answer of /health
    code      \* the exit code

vars == <<command, env, file, phase, cfg, ctx, closer, request, outcome, report, code>>
inputs == <<command, env, file>>

None == [none |-> "none"]

\* Two configurations are served, and cfg is what the sources say.
TypeOK ==
    /\ command \in Commands /\ env \in Environments /\ file \in Files
    /\ phase \in {"start", "waiting", "wired", "binding", "serving", "closed",
                  "failed", "exited"}
    /\ ctx \in {"none", "live", "done"}
    /\ closer \in {"none", "waiting", "closing", "done"}
    /\ outcome \in {"none", "ok", "err"}
    /\ code \in {"none", "0", "1", "2", "killed"}
    /\ phase # "start" /\ code # "2" =>
          cfg \in {Load(env), Resolved(env, file), None}
    /\ phase \in {"binding", "serving"} => cfg.transport \in {"stdio", "sse"}

Init ==
    /\ command \in Commands /\ env \in Environments /\ file \in Files
    /\ phase = "start"
    /\ cfg = None
    /\ ctx = "none"
    /\ closer = "none"
    /\ request = None
    /\ outcome = "none"
    /\ report = None
    /\ code = "none"

Exit(c) == phase' = "exited" /\ code' = c

\* SIGINT or SIGTERM: it kills until NotifyContext is called, and is a
\* cancelled context from then on.
Signal ==
    /\ phase # "exited"
    /\ \/ ctx = "none" /\ Exit("killed") /\ UNCHANGED ctx
       \/ ctx = "live" /\ ctx' = "done" /\ UNCHANGED <<phase, code>>
    /\ UNCHANGED <<inputs, cfg, closer, request, outcome, report>>

(***************************************************************************)
(* The command line                                                        *)
(***************************************************************************)
AtStart(surface) == phase = "start" /\ command.surface = surface

\* No subcommand, help, a configuration that is refused, an unknown
\* subcommand: nothing is sent.
CliRefuse ==
    /\ AtStart("cli")
    /\ \/ command.name = "" /\ Exit("2")
       \/ command.name = "--help" /\ Exit("0")
       \/ /\ command.name \notin {"", "--help"}
          /\ LoadFails(file) \/ ~Valid(Resolved(env, file)) \/ command.name \notin Subcommands
          /\ Exit("2")
    /\ UNCHANGED <<inputs, cfg, ctx, closer, request, outcome, report>>

ChooseString(flagVal, fallback) == IF flagVal # "" THEN flagVal ELSE fallback

Starts ==
    /\ AtStart("cli")
    /\ command.name \in Subcommands
    /\ ~LoadFails(file)
    /\ Valid(Resolved(env, file))

\* The subcommand's own flags: one it does not know or a missing required one.
CliBadFlags ==
    /\ Starts
    /\ command.flags = "bad"
    /\ cfg' = Resolved(env, file)
    /\ ctx' = "live"
    /\ Exit("1")
    /\ UNCHANGED <<inputs, closer, request, outcome, report>>

CliSend ==
    /\ Starts
    /\ command.flags = "good"
    /\ cfg' = Resolved(env, file)
    /\ ctx' = "live"
    /\ request' = [surface |-> "cli", op |-> command.name, targets |-> {"primary"},
                   asked |-> command.user,
                   id |-> IF command.name \in {"get", "delete"} THEN "id" ELSE "",
                   user |-> IF command.name \in Scoped
                               THEN ChooseString(command.user, cfg'.userID) ELSE "",
                   baseURL |-> cfg'.baseURL, timeout |-> ClientTimeout(cfg'.timeout)]
    /\ phase' = "waiting"
    /\ UNCHANGED <<inputs, closer, outcome, report, code>>

\* The Client returns: an error, the cancelled context's included, or a result.
CliAnswer ==
    /\ phase = "waiting"
    /\ outcome = "none"
    /\ \/ ctx = "live" /\ outcome' = "ok"
       \/ outcome' = "err"
    /\ UNCHANGED <<inputs, phase, cfg, ctx, closer, request, report, code>>

\* emit may fail too when it encodes to a closed output.
CliExit ==
    /\ phase = "waiting"
    /\ \/ outcome = "ok" /\ Exit("0")
       \/ outcome # "none" /\ Exit("1")
    /\ UNCHANGED <<inputs, cfg, ctx, closer, request, outcome, report>>

(***************************************************************************)
(* The server                                                              *)
(***************************************************************************)
\* Flags of run: one it does not know, -h included, --help, --version.
ServerFlags ==
    /\ AtStart("server")
    /\ \/ command.flags = "bad" /\ Exit("1")
       \/ command.flags = "good" /\ command.name \in {"--help", "--version"} /\ Exit("0")
    /\ UNCHANGED <<inputs, cfg, ctx, closer, request, outcome, report>>

Mirrors(c) ==
    IF ~DualWriteEnabled(c) THEN {}
    ELSE {"shadow"} \union (IF BackupEnabled(c) THEN {"backup"} ELSE {})

readClient(c) ==
    IF c.readSource = "cloud" /\ Mirrors(c) # {} THEN "shadow" ELSE "primary"

\* A bug the properties must see: the status repeats the configuration.
StatusAsConfigured(c) ==
    [enabled |-> c.dualWrite, readSource |-> c.readSource, hasBackup |-> BackupEnabled(c)]

\* What run tells the server for its health endpoint.
DualWriteStatus(c) ==
    IF DualWriteEnabled(c)
       THEN [enabled |-> TRUE, readSource |-> c.readSource, hasBackup |-> BackupEnabled(c)]
       ELSE [enabled |-> FALSE, readSource |-> "", hasBackup |-> FALSE]

\* run up to NotifyContext: configuration, clients, registry, server.
Wire ==
    /\ AtStart("server")
    /\ command.flags = "good"
    /\ command.name = ""
    /\ cfg' = Load(env)
    /\ ctx' = "live"
    /\ phase' = "wired"
    /\ UNCHANGED <<inputs, closer, request, outcome, report, code>>

\* Server.Run.
Run ==
    /\ phase = "wired"
    /\ \/ cfg.transport = "stdio" /\ phase' = "serving" /\ UNCHANGED <<closer, code>>
       \/ cfg.transport = "sse" /\ phase' = "binding" /\ closer' = "waiting" /\ UNCHANGED code
       \/ cfg.transport \notin {"stdio", "sse"} /\ Exit("1") /\ UNCHANGED closer
    /\ UNCHANGED <<inputs, cfg, ctx, request, outcome, report>>

\* ListenAndServe: it refuses to start after Close, and the port may be taken.
Bind ==
    /\ phase = "binding"
    /\ \/ closer = "done" /\ phase' = "closed"
       \/ closer # "done" /\ phase' \in {"serving", "failed"}
    /\ UNCHANGED <<inputs, cfg, ctx, closer, request, outcome, report, code>>

\* The listener's Accept fails for good and ListenAndServe returns its error.
AcceptFails ==
    /\ phase = "serving"
    /\ cfg.transport = "sse"
    /\ phase' = "failed"
    /\ UNCHANGED <<inputs, cfg, ctx, closer, request, outcome, report, code>>

\* A bug the properties must see: the sessions end and the listener stays.
CloserSessionsOnly ==
    /\ \/ closer = "waiting" /\ ctx = "done" /\ closer' = "closing"
       \/ closer = "closing" /\ closer' = "done"
    /\ phase # "exited"
    /\ UNCHANGED <<inputs, phase, cfg, ctx, request, outcome, report, code>>

\* sse.Shutdown, then srv.Close, which ends a running ListenAndServe.
Closer ==
    /\ phase # "exited"
    /\ \/ closer = "waiting" /\ ctx = "done" /\ closer' = "closing" /\ UNCHANGED phase
       \/ /\ closer = "closing" /\ closer' = "done"
          /\ phase' = IF phase = "serving" THEN "closed" ELSE phase
    /\ UNCHANGED <<inputs, cfg, ctx, request, outcome, report, code>>

\* StdioServer.Listen returns at the end of the input or with the context.
StdioReturn ==
    /\ phase = "serving"
    /\ cfg.transport = "stdio"
    /\ \E c \in {"0", "1"} : Exit(c)
    /\ UNCHANGED <<inputs, cfg, ctx, closer, request, outcome, report>>

\* A bug the properties must see: run waits for the goroutine before it returns.
ReturnAfterCloser ==
    /\ closer = "done"
    /\ \/ phase = "closed" /\ Exit("0")
       \/ phase = "failed" /\ Exit("1")
    /\ UNCHANGED <<inputs, cfg, ctx, closer, request, outcome, report>>

\* A bug the properties must see: ErrServerClosed is taken for a failure.
ReturnAnyError ==
    /\ phase \in {"closed", "failed"}
    /\ Exit("1")
    /\ UNCHANGED <<inputs, cfg, ctx, closer, request, outcome, report>>

\* runSSE and run return, and main exits whatever the goroutine does.
Return ==
    /\ \/ phase = "closed" /\ Exit("0")
       \/ phase = "failed" /\ Exit("1")
    /\ UNCHANGED <<inputs, cfg, ctx, closer, request, outcome, report>>

\* The calls of a Client behind the tools.  Those of UserOps are for a user;
\* the others name a memory by its id, and Doctor names nothing.
WriteOps == {"add", "update", "delete"}
ReadOps == {"search", "get_all", "get", "history"}
UserOps == {"add", "search", "get_all"}

TargetsOf(op) ==
    IF op \in WriteOps THEN {"primary"} \union Mirrors(cfg)
    ELSE {IF op \in ReadOps THEN readClient(cfg) ELSE "primary"}

Send(op, asked, id) ==
    /\ phase = "serving"
    /\ request' = [surface |-> "server", op |-> op, targets |-> TargetsOf(op),
                   asked |-> asked, id |-> id,
                   user |-> IF op \in UserOps THEN ChooseString(asked, cfg.userID) ELSE "",
                   baseURL |-> cfg.baseURL, timeout |-> ClientTimeout(cfg.timeout)]
    /\ UNCHANGED <<inputs, phase, cfg, ctx, closer, outcome, report, code>>

\* The ten tools, of which two are aliases.  Add and search send nothing when
\* their text or query is missing, and memory_read when its id is; update,
\* delete and history pass on an id that is missing.  A write reaches its
\* mirrors after the primary has taken it (DualWriter).
ToolCall ==
    \/ \E op \in UserOps, asked \in {"", "caller"} : Send(op, asked, "")
    \/ \E op \in {"update", "delete", "history"}, id \in {"", "id"} : Send(op, "", id)
    \/ Send("get", "", "id")
    \/ Send("doctor", "", "")

handleHealth ==
    /\ phase = "serving"
    /\ cfg.transport = "sse"
    /\ report' = DualWriteStatus(cfg)
    /\ UNCHANGED <<inputs, phase, cfg, ctx, closer, request, outcome, code>>

Cli == CliRefuse \/ CliBadFlags \/ CliSend \/ CliAnswer \/ CliExit

Serve == ServerFlags \/ Wire \/ Run \/ Bind \/ Return

Stop == phase = "exited" /\ UNCHANGED vars

Next ==
    \/ Signal
    \/ CliRefuse \/ CliBadFlags \/ CliSend \/ CliAnswer \/ CliExit
    \/ ServerFlags \/ Wire \/ Run \/ Bind \/ AcceptFails \/ Closer \/ StdioReturn \/ Return
    \/ ToolCall
    \/ handleHealth
    \/ Stop

Spec == Init /\ [][Next]_vars

\* The goroutines are scheduled and a request has the client's timeout.  With
\* its context cancelled StdioServer.Listen returns; clients, signals and the
\* listener may do as they like.
FairSpec ==
    /\ Spec
    /\ WF_vars(Cli)
    /\ WF_vars(Serve)
    /\ WF_vars(Closer)
    /\ WF_vars(ctx = "done" /\ StdioReturn)

(***************************************************************************)
(* /health tells where requests go: dual-write is reported exactly when    *)
(* writes have a mirror, the backup when they have two, and reads are      *)
(* answered by the cloud exactly when it is reported as their source       *)
(* (run's wiring and status, readClient, handleHealth).                    *)
(***************************************************************************)
HealthTellsWiring ==
    (report # None /\ request # None) =>
        /\ request.op \in WriteOps =>
              /\ report.enabled <=> request.targets # {"primary"}
              /\ report.hasBackup <=> "backup" \in request.targets
        /\ request.op \in ReadOps =>
              ((report.enabled /\ report.readSource = "cloud")
                  <=> request.targets = {"shadow"})

\* The first text of s that is not empty.
FirstSet(s) ==
    LET set == {i \in DOMAIN s : s[i] # ""} IN
    IF set = {} THEN "" ELSE s[CHOOSE i \in set : \A j \in set : i <= j]

(***************************************************************************)
(* Whose memories a request of the server is about.  One that adds,        *)
(* searches or lists is for a single user: the one its caller asks for, or *)
(* else the one of the environment, or else a fixed name, and so never for *)
(* all users.  One without a user names a memory by its id.  Only Doctor   *)
(* names neither, and an update, a deletion or a history whose caller left *)
(* the id out: these three are sent as they are, to the collection's path, *)
(* and memory_read is not (config.Load's chain of fallbacks,               *)
(* Registry.userID, the handlers).                                         *)
(***************************************************************************)
ServerRequestsAreScoped ==
    (request # None /\ request.surface = "server") =>
        /\ request.op \in UserOps =>
              request.user = FirstSet(<<request.asked, env.MEM0_USER_ID,
                                env.MEM0_DEFAULT_USER_ID, "default-user">>)
        /\ request.user = "" /\ request.id = "" =>
              request.op \in {"doctor", "update", "delete", "history"}

(***************************************************************************)
(* A request of the command line uses the user of the flag, or else of the *)
(* environment, or else of the file, and the endpoint of the environment   *)
(* or else of the file.  A blank text is no user in the environment, but   *)
(* one in the flag or the file, and a blank endpoint is refused.  The      *)
(* file's timeout counts only with MEM0_TIMEOUT unset: a text there that   *)
(* does not parse, like 45, which the server takes for seconds, hides it.  *)
(* No file that others may read is used (cliconfig.Load, Validate,         *)
(* chooseString: "file < env < flag").                                     *)
(***************************************************************************)
Precedence ==
    (request # None /\ request.surface = "cli") =>
        LET inFile(value) == IF file.state = "good" THEN value ELSE ""
            notBlank(value) == IF Blank(value) THEN "" ELSE value
        IN
        /\ command.name \in Scoped =>
              request.user = FirstSet(<<command.user, notBlank(env.MEM0_USER_ID),
                                notBlank(env.MEM0_DEFAULT_USER_ID), inFile(file.userID)>>)
        /\ request.baseURL = FirstSet(<<env.MEM0_BASE_URL, inFile(file.baseURL)>>)
        /\ ~Blank(request.baseURL)
        /\ request.timeout = ClientTimeout(ParseTimeoutOrDefault(
              FirstSet(<<env.MEM0_TIMEOUT, inFile(file.request)>>), 30))
        /\ file.state \in {"good", "missing"}

\* Exit codes of a subcommand and of an SSE server that was started.
CliCode ==
    /\ code' = "0" /\ command.name # "--help" => outcome = "ok"
    /\ code' = "2" => request = None

SSECode == code' = "1" <=> phase = "failed"

(***************************************************************************)
(* A script can tell from the exit code what happened.  Of a subcommand, 0 *)
(* means that the service answered and 2 that nothing was sent; of an SSE  *)
(* server, 1 means that it could not listen or its listener failed, and a  *)
(* signal's stop is 0, even one that came before it listened (clicmd.Run,  *)
(* runSSE, main).                                                          *)
(***************************************************************************)
ExitCodeTells ==
    [][ (phase # "exited" /\ phase' = "exited") =>
            /\ command.surface = "cli" => CliCode
            /\ (command.surface = "server" /\ cfg # None /\ cfg.transport = "sse") => SSECode ]_vars

(***************************************************************************)
(* A signal ends the process, whatever it is doing: a request of the       *)
(* command line, the start of the server or its service (NotifyContext,    *)
(* the goroutine of runSSE, ListenAndServe after Close).                   *)
(***************************************************************************)
SignalStops == (ctx = "done") ~> (phase = "exited")

(***************************************************************************)
(* A server that cannot listen any more exits with an error, unsignalled,  *)
(* though the goroutine of runSSE goes on waiting for one.                 *)
(***************************************************************************)
FailedListenEnds == (phase = "failed") ~> (phase = "exited" /\ code = "1")
=============================================================================
