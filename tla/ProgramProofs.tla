---------------------------- MODULE ProgramProofs ----------------------------
(***************************************************************************)
(* What the process says of itself, in any environment: the wiring that    *)
(* /health reports, whom the server's requests are for, which source of a  *)
(* configuration counts and the exit code.                                 *)
(***************************************************************************)
EXTENDS Program, TLAPS

\* The phases of a server that is wired.
ServerPhases == {"wired", "binding", "serving", "closed", "failed"}

\* The calls that need neither a user nor an id.
IdOptional == {"doctor", "update", "delete", "history"}

\* A request has a user, names an id or needs neither.
Addressed(op, id) == op \in UserOps \/ id # "" \/ op \in IdOptional

(***************************************************************************)
(* The inductive invariant, in parts                                       *)
(***************************************************************************)
Domains ==
    /\ command \in Commands /\ env \in Environments /\ file \in Files
    /\ phase \in {"start", "waiting", "exited"} \union ServerPhases
    /\ ctx \in {"none", "live", "done"}
    /\ closer \in {"none", "waiting", "closing", "done"}
    /\ outcome \in {"none", "ok", "err"}
    /\ code \in {"none", "0", "1", "2", "killed"}

\* What is so in a phase: nothing was done at the start, a subcommand waits,
\* and a server serves what it was configured to.
Phases ==
    /\ phase = "start" => cfg = None /\ request = None /\ report = None
    /\ phase = "waiting" => command.surface = "cli" /\ ctx # "none"
    /\ phase \in ServerPhases => command.surface = "server" /\ ctx # "none"
    /\ phase \in {"binding", "serving"} => cfg.transport \in {"stdio", "sse"}

Configured ==
    /\ cfg \in {Load(env), Resolved(env, file), None}
    /\ command.surface = "server" => cfg \in {Load(env), None}
    /\ phase \in ServerPhases => cfg = Load(env)

\* Requests and reports are made from the configuration.
Requested ==
    request # None =>
        /\ request.surface = command.surface
        /\ command.surface = "server" =>
              /\ request.targets = TargetsOf(request.op)
              /\ request.op \in UserOps =>
                    request.user = ChooseString(request.asked, Load(env).userID)
              /\ Addressed(request.op, request.id)

Reported ==
    report # None => command.surface = "server" /\ report = DualWriteStatus(cfg)

ProgramInv == Domains /\ Phases /\ Configured /\ Requested /\ Reported

(***************************************************************************)
(* Each step preserves it                                                  *)
(***************************************************************************)
LEMMA InvInit == Init => ProgramInv
BY SMT DEF Init, ProgramInv, Domains, Phases, Configured, Requested, Reported, ServerPhases

\* A step that sends nothing, reports nothing and leaves the configuration.
LEMMA QuietStep ==
    ASSUME ProgramInv, Domains', Phases', UNCHANGED <<inputs, cfg, request, report>>,
           phase' \in ServerPhases => phase \in ServerPhases
    PROVE  ProgramInv'
BY Zenon DEF ProgramInv, Configured, Requested, Reported, TargetsOf, inputs

LEMMA SignalStep == ASSUME ProgramInv, Signal PROVE ProgramInv'
<1>1. Domains' /\ Phases' /\ (phase' \in ServerPhases => phase \in ServerPhases)
  BY SMT DEF ProgramInv, Domains, Phases, Signal, Exit, inputs, ServerPhases
<1>2. UNCHANGED <<inputs, cfg, request, report>>
  BY Zenon DEF Signal
<1> QED
  BY <1>1, <1>2, QuietStep

LEMMA CliStep ==
    ASSUME ProgramInv, CliRefuse \/ CliBadFlags \/ CliSend \/ CliAnswer \/ CliExit
    PROVE  ProgramInv'
<1>1. CASE CliRefuse \/ CliAnswer \/ CliExit
  <2>1. Domains' /\ Phases' /\ (phase' \in ServerPhases => phase \in ServerPhases)
    <3>1. CASE CliRefuse
      <4>1. /\ phase' = "exited" /\ code' \in {"0", "2"}
            /\ UNCHANGED <<command, env, file, cfg, ctx, closer, request, outcome, report>>
        BY <3>1, Zenon DEF CliRefuse, Exit, inputs
      <4> QED
        BY <4>1, SMT DEF ProgramInv, Domains, Phases, ServerPhases
    <3>2. CASE CliAnswer
      <4>1. /\ phase = "waiting" /\ outcome' \in {"ok", "err"}
            /\ UNCHANGED <<command, env, file, phase, cfg, ctx, closer, request, report, code>>
        BY <3>2, Zenon DEF CliAnswer, inputs
      <4> QED
        BY <4>1, SMT DEF ProgramInv, Domains, Phases, ServerPhases
    <3>3. CASE CliExit
      <4>1. /\ phase' = "exited" /\ code' \in {"0", "1"}
            /\ UNCHANGED <<command, env, file, cfg, ctx, closer, request, outcome, report>>
        BY <3>3, Zenon DEF CliExit, Exit, inputs
      <4> QED
        BY <4>1, SMT DEF ProgramInv, Domains, Phases, ServerPhases
    <3> QED
      BY <1>1, <3>1, <3>2, <3>3
  <2>2. UNCHANGED <<inputs, cfg, request, report>>
    BY <1>1, Zenon DEF CliRefuse, CliAnswer, CliExit
  <2> QED
    BY <2>1, <2>2, QuietStep
<1>2. CASE CliBadFlags
  <2>1. /\ phase = "start" /\ command.surface = "cli" /\ request = None /\ report = None
        /\ phase' = "exited" /\ code' = "1" /\ ctx' = "live" /\ cfg' = Resolved(env, file)
        /\ UNCHANGED <<command, env, file, closer, request, outcome, report>>
    BY <1>2, Zenon DEF CliBadFlags, Starts, AtStart, Exit, inputs, ProgramInv, Phases
  <2>2. Domains' /\ Phases'
    BY <2>1, SMT DEF ProgramInv, Domains, Phases, ServerPhases
  <2>3. Configured'
    BY <2>1, SMT DEF Configured, ServerPhases
  <2> QED
    BY <2>1, <2>2, <2>3, Zenon DEF ProgramInv, Requested, Reported
<1>3. CASE CliSend
  <2>1. /\ phase = "start" /\ command.surface = "cli" /\ report = None
        /\ phase' = "waiting" /\ ctx' = "live" /\ cfg' = Resolved(env, file)
        /\ UNCHANGED <<command, env, file, closer, code, outcome, report>>
    BY <1>3, Zenon DEF CliSend, Starts, AtStart, inputs, ProgramInv, Phases
  <2>2. Domains' /\ Phases'
    BY <2>1, SMT DEF ProgramInv, Domains, Phases, ServerPhases
  <2>3. Configured'
    BY <2>1, SMT DEF Configured, ServerPhases
  <2>4. Requested'
    <3>1. request'.surface = "cli"
      <4>1. PICK op, targets, asked, id, user, url, timeout :
                request' = [surface |-> "cli", op |-> op, targets |-> targets,
                            asked |-> asked, id |-> id, user |-> user, baseURL |-> url,
                            timeout |-> timeout]
        BY <1>3, Zenon DEF CliSend
      <4> QED
        BY <4>1, Zenon
    <3>2. command'.surface = "cli"
      BY <2>1
    <3> QED
      BY <3>1, <3>2, Zenon DEF Requested
  <2> QED
    BY <2>1, <2>2, <2>3, <2>4, Zenon DEF ProgramInv, Reported
<1> QED
  BY <1>1, <1>2, <1>3

LEMMA ServerStep ==
    ASSUME ProgramInv,
           \/ ServerFlags \/ Wire \/ Run \/ Bind \/ AcceptFails \/ Closer \/ StdioReturn
           \/ Return
    PROVE  ProgramInv'
<1>1. CASE ServerFlags \/ Run \/ Bind \/ AcceptFails \/ Closer \/ StdioReturn \/ Return
  <2>1. /\ Domains' /\ (phase' \in ServerPhases => phase \in ServerPhases)
        /\ UNCHANGED <<inputs, cfg, request, report>>
    BY <1>1, SMT DEF ProgramInv, Domains, ServerFlags, Run, Bind, AcceptFails, Closer, StdioReturn,
       Return, AtStart, Exit, inputs, ServerPhases
  <2>2. Phases'
    BY <1>1, SMT DEF ProgramInv, Domains, Phases, ServerFlags, Run, Bind, AcceptFails, Closer,
       StdioReturn, Return, AtStart, Exit, inputs, ServerPhases
  <2> QED
    BY <2>1, <2>2, QuietStep
<1>2. CASE Wire
  <2>1. /\ phase = "start" /\ command.surface = "server" /\ request = None /\ report = None
        /\ phase' = "wired" /\ ctx' = "live" /\ cfg' = Load(env)
        /\ UNCHANGED <<command, env, file, closer, code, request, outcome, report>>
    BY <1>2, Zenon DEF Wire, AtStart, inputs, ProgramInv, Phases
  <2>2. Domains' /\ Phases'
    BY <2>1, SMT DEF ProgramInv, Domains, Phases, ServerPhases
  <2>3. Configured'
    BY <2>1, SMT DEF Configured, ServerPhases
  <2> QED
    BY <2>1, <2>2, <2>3, Zenon DEF ProgramInv, Requested, Reported
<1> QED
  BY <1>1, <1>2

\* A request of the server: where it goes and for whom.
LEMMA SendStep ==
    ASSUME ProgramInv, NEW op, NEW asked, NEW id, Send(op, asked, id), Addressed(op, id)
    PROVE  ProgramInv'
<1>1. /\ phase = "serving" /\ command.surface = "server" /\ cfg = Load(env)
      /\ UNCHANGED <<command, env, file, phase, cfg, ctx, closer, outcome, report, code>>
  BY Zenon DEF Send, inputs, ProgramInv, Phases, Configured, ServerPhases
<1>2. /\ request'.surface = "server" /\ request'.op = op /\ request'.targets = TargetsOf(op)
      /\ request'.asked = asked /\ request'.id = id
      /\ op \in UserOps => request'.user = ChooseString(asked, Load(env).userID)
  BY <1>1, Zenon DEF Send
<1>3. TargetsOf(op)' = TargetsOf(op)
  BY <1>1, Zenon DEF TargetsOf
<1>4. Requested'
  BY <1>1, <1>2, <1>3, Zenon DEF Requested
<1>5. Domains' /\ Phases'
  BY <1>1, SMT DEF ProgramInv, Domains, Phases
<1> QED
  BY <1>1, <1>4, <1>5, Zenon DEF ProgramInv, Configured, Reported

LEMMA ToolCallStep == ASSUME ProgramInv, ToolCall PROVE ProgramInv'
<1>1. CASE \E op \in UserOps, asked \in {"", "caller"} : Send(op, asked, "")
  BY <1>1, SendStep, Zenon DEF Addressed
<1>2. CASE \E op \in {"update", "delete", "history"}, id \in {"", "id"} : Send(op, "", id)
  BY <1>2, SendStep, Zenon DEF Addressed, IdOptional
<1>3. CASE Send("get", "", "id")
  <2>1. "id" # ""
    OBVIOUS
  <2> QED
    BY <1>3, <2>1, SendStep, Zenon DEF Addressed
<1>4. CASE Send("doctor", "", "")
  BY <1>4, SendStep, Zenon DEF Addressed, IdOptional
<1> QED
  BY <1>1, <1>2, <1>3, <1>4, Zenon DEF ToolCall

LEMMA HealthStep == ASSUME ProgramInv, handleHealth PROVE ProgramInv'
<1>1. /\ phase = "serving" /\ command.surface = "server" /\ report' = DualWriteStatus(cfg)
      /\ UNCHANGED <<command, env, file, phase, cfg, ctx, closer, request, outcome, code>>
  BY Zenon DEF handleHealth, inputs, ProgramInv, Phases, ServerPhases
<1>2. Reported'
  BY <1>1, Zenon DEF Reported
<1>3. Phases'
  BY <1>1, SMT DEF ProgramInv, Phases
<1> QED
  BY <1>1, <1>2, <1>3, Zenon DEF ProgramInv, Domains, Configured, Requested, TargetsOf

\* The invariant holds of every reachable state.
THEOREM ProgramInvariant == Spec => []ProgramInv
<1>1. ProgramInv /\ [Next]_vars => ProgramInv'
  <2> SUFFICES ASSUME ProgramInv, [Next]_vars PROVE ProgramInv'
    OBVIOUS
  <2>1. CASE UNCHANGED vars
    <3>1. UNCHANGED <<inputs, cfg, request, report>> /\ phase' = phase
      BY <2>1, Zenon DEF vars, inputs
    <3>2. Domains' /\ Phases'
      BY <2>1, SMT DEF vars, inputs, ProgramInv, Domains, Phases
    <3> QED
      BY <3>1, <3>2, QuietStep, Zenon
  <2> QED
    BY <2>1, SignalStep, CliStep, ServerStep, ToolCallStep, HealthStep, Zenon DEF Next, Stop
<1> QED
  BY <1>1, InvInit, PTL DEF Spec

(***************************************************************************)
(* What it says                                                            *)
(***************************************************************************)
(***************************************************************************)
(* The variables have their types: a server that listens has one of the    *)
(* two transports, and the configuration is what its sources say.          *)
(***************************************************************************)
THEOREM TypeCorrect == Spec => []TypeOK
<1>1. ProgramInv => TypeOK
  BY SMT DEF ProgramInv, Domains, Phases, Configured, ServerPhases, TypeOK
<1> QED
  BY <1>1, ProgramInvariant, PTL

(***************************************************************************)
(* In any environment /health reports dual-write, the backup and the       *)
(* source of reads as the requests are sent (run, handleHealth).           *)
(***************************************************************************)
THEOREM HealthTruth == Spec => []HealthTellsWiring
<1>1. ProgramInv => HealthTellsWiring
  <2> SUFFICES ASSUME ProgramInv, report # None, request # None
               PROVE  HealthTellsWiring
    BY Zenon DEF HealthTellsWiring
  <2>1. report = DualWriteStatus(cfg) /\ request.targets = TargetsOf(request.op)
    BY Zenon DEF ProgramInv, Reported, Requested
  <2>2. Mirrors(cfg) = {} <=> ~DualWriteEnabled(cfg)
    BY SMT DEF Mirrors
  <2>3. /\ report.enabled <=> DualWriteEnabled(cfg)
        /\ report.hasBackup <=> DualWriteEnabled(cfg) /\ BackupEnabled(cfg)
        /\ report.enabled => report.readSource = cfg.readSource
    <3>1. CASE DualWriteEnabled(cfg)
      BY <2>1, <3>1, SMT DEF DualWriteStatus
    <3>2. CASE ~DualWriteEnabled(cfg)
      <4>1. report = [enabled |-> FALSE, readSource |-> "", hasBackup |-> FALSE]
        BY <2>1, <3>2, Zenon DEF DualWriteStatus
      <4>2. ~report.enabled /\ ~report.hasBackup
        BY <4>1, Zenon
      <4> QED
        BY <3>2, <4>2, Zenon
    <3> QED
      BY <3>1, <3>2
  <2>4. ASSUME request.op \in WriteOps
        PROVE  /\ report.enabled <=> request.targets # {"primary"}
               /\ report.hasBackup <=> "backup" \in request.targets
    <3>1. request.targets = {"primary"} \union Mirrors(cfg)
      BY <2>1, <2>4, Zenon DEF TargetsOf
    <3>2. "primary" \notin Mirrors(cfg)
      BY SMT DEF Mirrors
    <3>3. "backup" \in Mirrors(cfg) <=> DualWriteEnabled(cfg) /\ BackupEnabled(cfg)
      BY SMT DEF Mirrors
    <3>4. "backup" # "primary"
      OBVIOUS
    <3>5. request.targets # {"primary"} <=> DualWriteEnabled(cfg)
      BY <2>2, <3>1, <3>2, SMT
    <3>6. "backup" \in request.targets <=> DualWriteEnabled(cfg) /\ BackupEnabled(cfg)
      BY <3>1, <3>3, <3>4, SMT
    <3> QED
      BY <2>3, <3>5, <3>6, Zenon
  <2>5. ASSUME request.op \in ReadOps
        PROVE  (report.enabled /\ report.readSource = "cloud")
                   <=> request.targets = {"shadow"}
    <3>1. request.op \notin WriteOps
      BY <2>5, SMT DEF ReadOps, WriteOps
    <3>2. request.targets = {readClient(cfg)}
      BY <2>1, <2>5, <3>1, Zenon DEF TargetsOf
    <3>3. request.targets = {"shadow"} <=> cfg.readSource = "cloud" /\ DualWriteEnabled(cfg)
      BY <2>2, <3>2, SMT DEF readClient
    <3> QED
      BY <2>3, <3>3, Zenon
  <2> QED
    BY <2>4, <2>5, Zenon DEF HealthTellsWiring
<1> QED
  BY <1>1, ProgramInvariant, PTL

\* The least of some indices is the one that no other is below.
LEMMA LeastIndex ==
    ASSUME NEW set, NEW i \in set, \A k \in set : k \in Int /\ i <= k
    PROVE  (CHOOSE j \in set : \A k \in set : j <= k) = i
<1> DEFINE first == CHOOSE j \in set : \A k \in set : j <= k
<1>1. first \in set /\ \A k \in set : first <= k
  BY Zenon
<1> HIDE DEF first
<1>2. first = i
  BY <1>1, SMT
<1> QED
  BY <1>2 DEF first

\* The first text of a list that is set.
LEMMA FirstOfList ==
    ASSUME NEW s, NEW i \in DOMAIN s, s[i] # "",
           \A j \in DOMAIN s : j \in Int /\ (i <= j \/ s[j] = "")
    PROVE  FirstSet(s) = s[i]
<1> DEFINE set == {j \in DOMAIN s : s[j] # ""}
<1>1. i \in set /\ \A k \in set : k \in Int /\ i <= k
  BY Zenon
<1>2. (CHOOSE j \in set : \A k \in set : j <= k) = i
  <2> HIDE DEF set
  <2> QED
    BY <1>1, LeastIndex
<1> QED
  BY <1>1, <1>2, Zenon DEF FirstSet

\* A list of which nothing is set.
LEMMA NoneOfList ==
    ASSUME NEW s, \A j \in DOMAIN s : s[j] = ""
    PROVE  FirstSet(s) = ""
<1>1. {j \in DOMAIN s : s[j] # ""} = {}
  BY Zenon
<1> QED
  BY <1>1, Zenon DEF FirstSet

\* The indices of the lists of Precedence.
LEMMA TwoIndices ==
    ASSUME NEW a, NEW b
    PROVE  LET s == <<a, b>> IN
           /\ DOMAIN s = {1, 2} /\ s[1] = a /\ s[2] = b
           /\ 1 <= 1 /\ 1 <= 2 /\ 2 <= 2 /\ {1, 2} \subseteq Int
BY SMT

LEMMA FourIndices ==
    ASSUME NEW a, NEW b, NEW c, NEW d
    PROVE  LET s == <<a, b, c, d>> IN
           /\ DOMAIN s = {1, 2, 3, 4}
           /\ s[1] = a /\ s[2] = b /\ s[3] = c /\ s[4] = d
           /\ \A j \in DOMAIN s : j \in Int /\ 1 <= j /\ (j = 1 \/ 2 <= j)
                                  /\ (j = 1 \/ j = 2 \/ 3 <= j)
                                  /\ (j = 1 \/ j = 2 \/ j = 3 \/ 4 <= j)
BY SMT

\* The first of two texts, unless it is empty.
First(a, b) == IF a # "" THEN a ELSE b

\* FirstSet on the lists of Precedence.
LEMMA FirstOfTwo ==
    ASSUME NEW a, NEW b
    PROVE  FirstSet(<<a, b>>) = First(a, b)
<1> USE DEF First
<1> DEFINE s == <<a, b>>
<1>1. /\ DOMAIN s = {1, 2} /\ s[1] = a /\ s[2] = b
      /\ 1 <= 1 /\ 1 <= 2 /\ 2 <= 2 /\ {1, 2} \subseteq Int
  BY TwoIndices
<1> HIDE DEF s
<1>2. CASE a # ""
  BY <1>1, <1>2, FirstOfList, Zenon DEF s
<1>3. CASE a = "" /\ b # ""
  BY <1>1, <1>3, FirstOfList, Zenon DEF s
<1>4. CASE a = "" /\ b = ""
  BY <1>1, <1>4, NoneOfList, Zenon DEF s
<1> QED
  BY <1>2, <1>3, <1>4

LEMMA FirstOfFour ==
    ASSUME NEW a, NEW b, NEW c, NEW d
    PROVE  FirstSet(<<a, b, c, d>>) = First(a, First(b, First(c, d)))
<1> USE DEF First
<1> DEFINE s == <<a, b, c, d>>
<1>1. /\ DOMAIN s = {1, 2, 3, 4}
      /\ s[1] = a /\ s[2] = b /\ s[3] = c /\ s[4] = d
      /\ \A j \in DOMAIN s : j \in Int /\ 1 <= j /\ (j = 1 \/ 2 <= j)
                             /\ (j = 1 \/ j = 2 \/ 3 <= j)
                             /\ (j = 1 \/ j = 2 \/ j = 3 \/ 4 <= j)
  BY FourIndices
<1>2. 1 \in DOMAIN s /\ 2 \in DOMAIN s /\ 3 \in DOMAIN s /\ 4 \in DOMAIN s
  BY <1>1, Zenon
<1>3. FirstSet(<<a, b, c, d>>) = FirstSet(s)
  OBVIOUS
<1> HIDE DEF s
<1>4. CASE a # ""
  <2>1. FirstSet(s) = s[1]
    BY <1>1, <1>2, <1>4, FirstOfList, Zenon
  <2> QED
    BY <1>1, <1>3, <1>4, <2>1, Zenon
<1>5. CASE a = "" /\ b # ""
  <2>1. FirstSet(s) = s[2]
    BY <1>1, <1>2, <1>5, FirstOfList, Zenon
  <2> QED
    BY <1>1, <1>3, <1>5, <2>1, Zenon
<1>6. CASE a = "" /\ b = "" /\ c # ""
  <2>1. FirstSet(s) = s[3]
    BY <1>1, <1>2, <1>6, FirstOfList, Zenon
  <2> QED
    BY <1>1, <1>3, <1>6, <2>1, Zenon
<1>7. CASE a = "" /\ b = "" /\ c = "" /\ d # ""
  <2>1. FirstSet(s) = s[4]
    BY <1>1, <1>2, <1>7, FirstOfList, Zenon
  <2> QED
    BY <1>1, <1>3, <1>7, <2>1, Zenon
<1>8. CASE a = "" /\ b = "" /\ c = "" /\ d = ""
  <2>1. FirstSet(s) = ""
    BY <1>1, <1>8, NoneOfList, Zenon
  <2> QED
    BY <1>3, <1>8, <2>1, Zenon
<1> QED
  BY <1>4, <1>5, <1>6, <1>7, <1>8, Zenon

(***************************************************************************)
(* In any environment a request of the server for a user has one: the      *)
(* caller's, or the environment's, or a fixed name.  Another one names an  *)
(* id, but for Doctor and an update, deletion or history whose caller left *)
(* it out (config.Load, Registry.userID, the handlers of the tools).       *)
(***************************************************************************)
THEOREM ScopedRequests == Spec => []ServerRequestsAreScoped
<1>1. ProgramInv => ServerRequestsAreScoped
  <2> SUFFICES ASSUME ProgramInv, request # None, request.surface = "server"
               PROVE  ServerRequestsAreScoped
    BY Zenon DEF ServerRequestsAreScoped
  <2>1. /\ request.op \in UserOps =>
              request.user = ChooseString(request.asked, Load(env).userID)
        /\ Addressed(request.op, request.id)
    BY Zenon DEF ProgramInv, Requested
  <2> DEFINE default == First(env.MEM0_USER_ID,
                              First(env.MEM0_DEFAULT_USER_ID, "default-user"))
             user == FirstSet(<<request.asked, env.MEM0_USER_ID, env.MEM0_DEFAULT_USER_ID,
                                "default-user">>)
  <2>2. Load(env).userID = default
    BY Zenon DEF Load, Getenv, First
  <2>3. user = First(request.asked, default)
    BY FirstOfFour
  <2>4. default # ""
    <3>1. "default-user" # ""
      OBVIOUS
    <3> QED
      BY <3>1, Zenon DEF First
  <2> HIDE DEF default, user
  <2>5. request.op \in UserOps => request.user = user /\ user # ""
    BY <2>1, <2>2, <2>3, <2>4, Zenon DEF ChooseString, First
  <2> QED
    BY <2>1, <2>5, Zenon DEF ServerRequestsAreScoped, Addressed, user, IdOptional
<1> QED
  BY <1>1, ProgramInvariant, PTL

\* What the file says, and what a variable says of which a blank is ignored.
InFile(f, text) == IF f.state = "good" THEN text ELSE ""
NotBlank(text) == IF Blank(text) THEN "" ELSE text

\* What the sources of the command line come to, field by field.
LEMMA MergedFields ==
    ASSUME NEW e, NEW f, f.state \in {"good", "missing"}
    PROVE  /\ Resolved(e, f).userID =
                 First(NotBlank(e.MEM0_USER_ID),
                       First(NotBlank(e.MEM0_DEFAULT_USER_ID), InFile(f, f.userID)))
           /\ Resolved(e, f).baseURL = First(e.MEM0_BASE_URL, InFile(f, f.baseURL))
           /\ Resolved(e, f).timeout =
                 ParseTimeoutOrDefault(First(e.MEM0_TIMEOUT, InFile(f, f.request)), 30)
<1>1. ParseTimeoutOrDefault("", 30) = 30
  <2>1. ParseDuration("") = NoDuration
    BY Zenon DEF ParseDuration
  <2> QED
    BY <2>1, Zenon DEF ParseTimeoutOrDefault
<1>2. /\ FromEnv(e).userID = FirstNonEmpty(e.MEM0_USER_ID, e.MEM0_DEFAULT_USER_ID)
      /\ FromEnv(e).baseURL = e.MEM0_BASE_URL
      /\ FromEnv(e).timeout = ParseTimeoutOrDefault(e.MEM0_TIMEOUT, 30)
  BY Zenon DEF FromEnv
<1>3. Blank("")
  BY Zenon DEF Blank
<1>4. CASE f.state = "missing"
  <2>1. Resolved(e, f) = FromEnv(e) /\ f.state # "good"
    BY <1>4, Zenon DEF Resolved
  <2> QED
    BY <1>1, <1>2, <1>3, <2>1, Zenon DEF FirstNonEmpty, First, InFile, NotBlank
<1>5. CASE f.state = "good"
  <2>1. Resolved(e, f) = Merge(e, f) /\ f.state = "good"
    BY <1>5, Zenon DEF Resolved
  <2>2. /\ Merge(e, f).userID = Getenv(FromEnv(e).userID, f.userID)
        /\ Merge(e, f).baseURL = Getenv(FromEnv(e).baseURL, f.baseURL)
        /\ Merge(e, f).timeout = IF e.MEM0_TIMEOUT = ""
                                 THEN ParseTimeoutOrDefault(f.request, FromEnv(e).timeout)
                                 ELSE FromEnv(e).timeout
    BY Zenon DEF Merge, FromEnv
  <2> QED
    BY <1>1, <1>2, <1>3, <2>1, <2>2, Zenon DEF FirstNonEmpty, Getenv, First, InFile, NotBlank
<1> QED
  BY <1>4, <1>5

(***************************************************************************)
(* A request of the command line is made from its flag, the environment    *)
(* and the file in that order, each with its own idea of an empty value,   *)
(* whatever they hold (cliconfig.Load, Validate, chooseString).            *)
(***************************************************************************)
THEOREM CliPrecedence == Spec => []Precedence
<1>1. Init => Precedence
  BY Zenon DEF Init, Precedence
<1>2. ASSUME Precedence, UNCHANGED <<inputs, request>> PROVE Precedence'
  <2>1. UNCHANGED <<command, env, file, request>>
    BY <1>2, Zenon DEF inputs
  <2> QED
    BY <1>2, <2>1, Zenon DEF Precedence
<1>3. ASSUME ProgramInv, CliSend PROVE Precedence'
  <2> DEFINE r == Resolved(env, file)
  <2>1. /\ request'.user = IF command.name \in Scoped
                              THEN ChooseString(command.user, r.userID) ELSE ""
        /\ request'.baseURL = r.baseURL
        /\ request'.timeout = ClientTimeout(r.timeout)
        /\ command' = command /\ env' = env /\ file' = file
        /\ ~LoadFails(file) /\ Valid(r)
    BY <1>3, Zenon DEF CliSend, Starts, inputs
  <2>2. file.state \in {"good", "missing"}
    BY <1>3, <2>1, FilesAssumption, Zenon DEF ProgramInv, Domains, LoadFails
  <2>3. /\ r.userID = First(NotBlank(env.MEM0_USER_ID),
                         First(NotBlank(env.MEM0_DEFAULT_USER_ID), InFile(file, file.userID)))
        /\ r.baseURL = First(env.MEM0_BASE_URL, InFile(file, file.baseURL))
        /\ r.timeout =
              ParseTimeoutOrDefault(First(env.MEM0_TIMEOUT, InFile(file, file.request)), 30)
    BY <2>2, MergedFields
  <2> HIDE DEF r
  <2> DEFINE us == FirstSet(<<command.user, NotBlank(env.MEM0_USER_ID),
                        NotBlank(env.MEM0_DEFAULT_USER_ID), InFile(file, file.userID)>>)
             url == FirstSet(<<env.MEM0_BASE_URL, InFile(file, file.baseURL)>>)
             wait == FirstSet(<<env.MEM0_TIMEOUT, InFile(file, file.request)>>)
  <2>4. us = First(command.user, First(NotBlank(env.MEM0_USER_ID),
               First(NotBlank(env.MEM0_DEFAULT_USER_ID), InFile(file, file.userID))))
    BY FirstOfFour
  <2>5. url = First(env.MEM0_BASE_URL, InFile(file, file.baseURL))
    BY FirstOfTwo, Zenon
  <2>6. wait = First(env.MEM0_TIMEOUT, InFile(file, file.request))
    BY FirstOfTwo, Zenon
  <2> HIDE DEF us, url, wait
  <2>7. ChooseString(command.user, r.userID) = us
    BY <2>3, <2>4, Zenon DEF ChooseString, First
  <2>8. r.baseURL = url /\ ~Blank(r.baseURL) /\ r.timeout = ParseTimeoutOrDefault(wait, 30)
    BY <2>1, <2>3, <2>5, <2>6, Zenon DEF Valid
  <2>9. /\ command.name \in Scoped => request'.user = us
        /\ request'.baseURL = url /\ ~Blank(request'.baseURL)
        /\ request'.timeout = ClientTimeout(ParseTimeoutOrDefault(wait, 30))
    BY <2>1, <2>7, <2>8, Zenon
  <2> QED
    BY <2>1, <2>2, <2>9, Zenon DEF Precedence, us, url, wait, InFile, NotBlank
<1>4. ASSUME NEW op, NEW asked, NEW id, Send(op, asked, id) PROVE Precedence'
  <2>1. request'.surface = "server"
    BY <1>4, Zenon DEF Send
  <2>2. "server" # "cli"
    OBVIOUS
  <2> QED
    BY <2>1, <2>2, Zenon DEF Precedence
<1>5. ASSUME ProgramInv, Precedence, [Next]_vars PROVE Precedence'
  <2>1. CASE Signal \/ CliRefuse \/ CliBadFlags \/ CliAnswer \/ CliExit
    BY <1>2, <1>5, <2>1, Zenon DEF Signal, CliRefuse, CliBadFlags, CliAnswer, CliExit
  <2>2. CASE \/ ServerFlags \/ Wire \/ Run \/ Bind \/ AcceptFails \/ Closer \/ StdioReturn
             \/ Return
    BY <1>2, <1>5, <2>2, Zenon DEF ServerFlags, Wire, Run, Bind, AcceptFails, Closer,
       StdioReturn, Return
  <2>3. CASE ToolCall
    BY <1>4, <2>3, Zenon DEF ToolCall
  <2>4. CASE handleHealth \/ Stop \/ UNCHANGED vars
    BY <1>2, <1>5, <2>4, Zenon DEF handleHealth, Stop, vars, inputs
  <2> QED
    BY <1>3, <1>5, <2>1, <2>2, <2>3, <2>4, Zenon DEF Next
<1> QED
  BY <1>1, <1>5, ProgramInvariant, PTL DEF Spec

(***************************************************************************)
(* The exit code of a subcommand and of an SSE server tells what happened, *)
(* in any environment and for any command (clicmd.Run, runSSE, main).      *)
(***************************************************************************)
THEOREM ExitCodes == Spec => ExitCodeTells
<1> DEFINE Tells ==
        (phase # "exited" /\ phase' = "exited") =>
            /\ command.surface = "cli" => CliCode
            /\ (command.surface = "server" /\ cfg # None /\ cfg.transport = "sse") => SSECode
<1>1. ProgramInv /\ [Next]_vars => [Tells]_vars
  <2> SUFFICES ASSUME ProgramInv, Next, phase # "exited", phase' = "exited"
               PROVE  Tells
    BY Zenon
  <2>1. CASE Signal
    BY <2>1, SMT DEF Signal, Exit, ProgramInv, Domains, Phases, ServerPhases, CliCode, SSECode
  <2>2. CASE Cli
    <3>1. command.surface = "cli"
      BY <2>2, Zenon DEF Cli, CliRefuse, CliBadFlags, CliSend, CliAnswer, CliExit, Starts,
         AtStart, ProgramInv, Phases
    <3>2. ASSUME CliRefuse PROVE CliCode
      <4>1. request = None
        BY <3>2, Zenon DEF CliRefuse, AtStart, ProgramInv, Phases
      <4>2. code' = "0" => command.name = "--help"
        BY <3>2, Zenon DEF CliRefuse, Exit
      <4> QED
        BY <4>1, <4>2, Zenon DEF CliCode
    <3>3. ASSUME CliBadFlags PROVE CliCode
      BY <3>3, SMT DEF CliBadFlags, Exit, CliCode
    <3>4. ASSUME CliExit PROVE CliCode
      BY <3>4, SMT DEF CliExit, Exit, CliCode
    <3>5. ~CliSend /\ ~CliAnswer
      BY SMT DEF CliSend, CliAnswer
    <3> QED
      BY <2>2, <3>1, <3>2, <3>3, <3>4, <3>5, Zenon DEF Cli
  <2>3. CASE \/ ServerFlags \/ Wire \/ Run \/ Bind \/ AcceptFails \/ Closer \/ StdioReturn
             \/ Return
    BY <2>3, SMT DEF ServerFlags, Wire, Run, Bind, AcceptFails, Closer, StdioReturn, Return,
       AtStart, Exit, ProgramInv, Domains, Phases, ServerPhases, SSECode
  <2>4. ~ToolCall /\ ~handleHealth /\ ~Stop
    BY Zenon DEF ToolCall, Send, handleHealth, Stop
  <2> QED
    BY <2>1, <2>2, <2>3, <2>4, Zenon DEF Next, Cli
<1> HIDE DEF Tells
<1>2. Spec => [][Tells]_vars
  BY <1>1, ProgramInvariant, PTL DEF Spec
<1> QED
  BY <1>2 DEF Tells, ExitCodeTells
=============================================================================
