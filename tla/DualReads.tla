----------------------------- MODULE DualReads -----------------------------
(***************************************************************************)
(* The reads of internal/mem0/dualwriter.go beside its writes: Get,        *)
(* GetAll, History and ListEntities go to the one target that ReadSource   *)
(* chooses.  What a read returns is abstracted to the writes its target    *)
(* had applied.  Search has a cache in between: SearchCache models it.     *)
(***************************************************************************)
EXTENDS DualWriter

CONSTANT Readers  \* goroutines that read, one call at a time

VARIABLES
    source, \* DualWriterConfig.ReadSource, chosen once
    read,   \* read[r]: the state of r's call
    known,  \* known[r]: the writes whose callers had their answer when it began
    clean,  \* clean[r]: Stats had no shadow error and no goroutine was in flight
    seen    \* seen[r]: the writes visible in r's last answer

readVars == <<source, read, known, clean, seen>>
allVars == <<vars, readVars>>

ReadTypeOK ==
    /\ TypeOK
    /\ source \in {"oss", "cloud"}
    /\ read \in [Readers -> {"idle", "running", "answered", "failed"}]
    /\ known \in [Readers -> SUBSET Writes]
    /\ clean \in [Readers -> BOOLEAN]
    /\ seen \in [Readers -> SUBSET Writes]

ReadInit ==
    /\ Init
    /\ source \in {"oss", "cloud"}
    /\ read = [r \in Readers |-> "idle"]
    /\ known = [r \in Readers |-> {}]
    /\ clean = [r \in Readers |-> FALSE]
    /\ seen = [r \in Readers |-> {}]

\* A bug the properties must see: a shadow is read whatever ReadSource says.
ShadowFirst == IF "shadow" \in Mirrors THEN "shadow" ELSE Primary

readClient ==
    IF source = "cloud" /\ "shadow" \in Mirrors THEN "shadow" ELSE Primary

Visible(t) == {w \in Writes : applied[t][w] > 0}

ReadStart(r) ==
    /\ alive
    /\ read[r] # "running"
    /\ read' = [read EXCEPT ![r] = "running"]
    /\ known' = [known EXCEPT ![r] = {w \in Writes : call[w] = "ok"}]
    /\ clean' = [clean EXCEPT ![r] =
                    /\ "shadow" \in Mirrors
                    /\ stats["shadow"].errors = 0
                    /\ \A w \in Writes : ~InProgress("shadow", w)]
    /\ UNCHANGED <<vars, source, seen>>

Answered(r, t) ==
    /\ alive
    /\ read[r] = "running"
    /\ read' = [read EXCEPT ![r] = "answered"]
    /\ seen' = [seen EXCEPT ![r] = Visible(t)]
    /\ UNCHANGED <<vars, source, known, clean>>

\* A bug the properties must see: any target may answer a read.
ReadAnyTarget(r) == \E t \in Targets : Answered(r, t)

ReadAnswer(r) == Answered(r, readClient)

ReadFail(r) ==
    /\ alive
    /\ read[r] = "running"
    /\ read' = [read EXCEPT ![r] = "failed"]
    /\ UNCHANGED <<vars, source, known, clean, seen>>

ReadNext ==
    \/ Next /\ UNCHANGED readVars
    \/ \E r \in Readers : ReadStart(r) \/ ReadAnswer(r) \/ ReadFail(r)

ReadSpec == ReadInit /\ [][ReadNext]_allVars

\* Nothing is assumed of the mirrors, nor of the readers.
ReadFairSpec == ReadSpec /\ PrimaryFairness

(***************************************************************************)
(* A read returns every write whose caller had its answer before the read  *)
(* began: always when ReadSource is not the cloud or there is no shadow,   *)
(* and else if Stats counted no shadow error and no write was on its way   *)
(* (readClient, the order of Add's calls, asyncWrite).                     *)
(***************************************************************************)
ReadsYourWrites ==
    \A r \in Readers :
        (/\ read[r] = "answered"
         /\ source = "oss" \/ "shadow" \notin Mirrors \/ clean[r]) =>
            known[r] \subseteq seen[r]

(***************************************************************************)
(* Switching ReadSource to the cloud never shows what the source of truth  *)
(* does not have.                                                          *)
(***************************************************************************)
NeverAhead == \A r \in Readers : seen[r] \subseteq Visible(Primary)

(***************************************************************************)
(* Successive reads by one caller never go back in time: they all go to    *)
(* one target, with no fallback to the other when it fails.                *)
(***************************************************************************)
MonotonicReads == [][ \A r \in Readers : seen[r] \subseteq seen'[r] ]_allVars
=============================================================================
