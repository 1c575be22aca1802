----------------------------- MODULE ProgramMC -----------------------------
\* Instances of Program for TLC.
EXTENDS Program, FiniteSets

AllEnvironments ==
    [MEM0_BASE_URL : {"", " ", "env-url"},
     MEM0_USER_ID : {"", " ", "env-user"},
     MEM0_DEFAULT_USER_ID : {"", "old-user"},
     MEM0_TIMEOUT : {"", "45", "45s", "0s", "soon"},
     MCP_TRANSPORT : {"", "sse", "http"},
     MEM0_DUAL_WRITE : {"", "on", "off"},
     MEM0_CLOUD_API_KEY : {"", "key"},
     MEM0_READ_SOURCE : {"", "cloud", "disk"},
     MEM0_BACKUP_URL : {"", "backup-url"},
     MEM0_BACKUP_API_KEY : {"", "key"}]

\* Up to two variables set for the command line, and for the server those that
\* work together.
SomeEnvironments ==
    {e \in AllEnvironments :
        /\ e.MEM0_TIMEOUT # "" => Cardinality({v \in DOMAIN e : e[v] # ""}) <= 2
        /\ (e.MEM0_BASE_URL # "" \/ e.MEM0_USER_ID # "" \/ e.MEM0_DEFAULT_USER_ID # "") =>
              /\ e.MEM0_DUAL_WRITE = "" /\ e.MEM0_BACKUP_URL = ""
              /\ e.MEM0_CLOUD_API_KEY = "" /\ e.MEM0_READ_SOURCE = ""
        /\ e.MEM0_DUAL_WRITE = "" => e.MEM0_BACKUP_URL = "" /\ e.MEM0_BACKUP_API_KEY = ""}

SomeFiles ==
    {[state |-> "missing", baseURL |-> "", userID |-> "", request |-> ""]}
    \union [state : {"good"}, baseURL : {"", "file-url"}, userID : {"", "file-user"},
            request : {"", "12s"}]
    \union {[state |-> "good", baseURL |-> url, userID |-> " ", request |-> ""] :
              url \in {" ", "file-url"}}
    \union [state : {"insecure", "unparsable"}, baseURL : {"file-url"},
            userID : {"file-user"}, request : {"12s"}]

AllCommands ==
    [surface : {"cli"}, name : {"", "--help", "bogus", "add", "health"},
     flags : {"good", "bad"}, user : {"", "flag-user"}]
    \union {[surface |-> "cli", name |-> "add", flags |-> "good", user |-> " "]}
    \union [surface : {"server"}, name : {"", "--help"}, flags : {"good", "bad"}, user : {""}]
=============================================================================
