----------------------------- MODULE Namespace -----------------------------
(***************************************************************************)
(* The keys of internal/namespace/namespace.go, as functions of their      *)
(* texts.  A text is a sequence of characters.                             *)
(***************************************************************************)
EXTENDS Integers, Sequences, FiniteSets

Slash == "/"

\* Key.String.
KeyString(k) ==
    k.AppID \o <<Slash>> \o k.UserID \o <<Slash>> \o k.Namespace \o <<Slash>> \o k.RunID

HasSlash(s) == \E i \in 1 .. Len(s) : s[i] = Slash

FirstSlash(s) ==
    CHOOSE i \in 1 .. Len(s) : s[i] = Slash /\ \A j \in 1 .. (i - 1) : s[j] # Slash

Before(s) == SubSeq(s, 1, FirstSlash(s) - 1)

After(s) == SubSeq(s, FirstSlash(s) + 1, Len(s))

\* SplitN(s, "/", 4) has four parts: there are three slashes or more.
Parses(s) == HasSlash(s) /\ HasSlash(After(s)) /\ HasSlash(After(After(s)))

\* A bug the properties must see: Split, whose fourth part ends at a slash.
ParsedSplit(s) ==
    LET run == After(After(After(s))) IN
    [AppID |-> Before(s), UserID |-> Before(After(s)),
     Namespace |-> Before(After(After(s))),
     RunID |-> IF HasSlash(run) THEN Before(run) ELSE run]

\* Parse of a text that parses: the fourth part is what is left.
Parsed(s) ==
    [AppID |-> Before(s), UserID |-> Before(After(s)),
     Namespace |-> Before(After(After(s))), RunID |-> After(After(After(s)))]

\* Key.Matches: an empty part of the filter matches any.
Matches(k, filter) ==
    \A part \in {"AppID", "UserID", "Namespace", "RunID"} :
        filter[part] = <<>> \/ filter[part] = k[part]

(***************************************************************************)
(* Two kinds of keys that the code does not tell from others and that the  *)
(* properties do: those with slashes in the run id only, which Parse gives *)
(* back, and those with no empty part, which as filters have no wildcard.  *)
(***************************************************************************)
Unslashed(k) == ~HasSlash(k.AppID) /\ ~HasSlash(k.UserID) /\ ~HasSlash(k.Namespace)

Full(k) == \A part \in {"AppID", "UserID", "Namespace", "RunID"} : k[part] # <<>>
=============================================================================
