------------------------------ MODULE Rotator -------------------------------
(***************************************************************************)
(* The exit rotator (internal/proxy/rotator.go) and the goroutine that     *)
(* drives it, runRotator (cmd/scdn-io-proxy/main.go).                      *)
(*                                                                         *)
(* Advance runs under the mutex mu, so two of them do not overlap, but mu  *)
(* does not cover the table: rows come and go between the listing Advance  *)
(* reads and the snapshot it publishes.  Admin requests call Advance next  *)
(* to runRotator; connections and pages read the snapshot with no lock.    *)
(*                                                                         *)
(* Time is counted in seconds, the period of runRotator's ticker.  The     *)
(* snapshot keeps the seconds left until ExpiresAt instead of the instant, *)
(* and runRotator the seconds since lastNoProxyCheck.                      *)
(***************************************************************************)
EXTENDS ProxyTable

CONSTANTS Loop,         \* the goroutine of runRotator
          Admins,       \* admin requests that may call Advance
          Holds,        \* the hold times, in seconds, the settings can ask for
          NoProxyWait,  \* the 5 s of runRotator
          NoRow         \* the zero store.Proxy

Callers == {Loop} \cup Admins

NoCaller == "none"

ASSUME RotatorAssumption == /\ Loop \notin Admins
                            /\ NoCaller \notin Callers
                            /\ Holds \subseteq Nat \ {0}
                            /\ NoProxyWait \in Nat
                            /\ NoRow \notin Row

VARIABLES mu,       \* the caller inside Advance, or NoCaller
          idx,      \* Rotator.idx
          snap,     \* the published ExitSnapshot
          advance,  \* advance[c]: how far c is in a call of Advance
          listed,   \* what the Advance that holds mu read from the table
          tick,     \* the ticker's channel, of capacity 1, holds a tick
          unchecked \* seconds since lastNoProxyCheck, up to NoProxyWait

rotatorVars == <<mu, idx, snap, advance, listed, tick, unchecked>>

Snapshot == [row : Row \cup {NoRow}, left : Nat]
HasProxy == snap.row # NoRow

RotatorTypeOK == /\ mu \in Callers \cup {NoCaller}
                 /\ idx \in Nat
                 /\ snap \in Snapshot
                 /\ advance \in [Callers -> {"out", "waiting", "listed"}]
                 /\ listed \subseteq Row
                 /\ tick \in BOOLEAN
                 /\ unchecked \in 0 .. NoProxyWait

\* runRotator calls Advance before its first tick ("pick an exit as soon as
\* possible"); lastNoProxyCheck is the zero time, so the first check is due.
RotatorInit == /\ mu = NoCaller
               /\ idx = 0
               /\ snap = [row |-> NoRow, left |-> 0]
               /\ advance = [c \in Callers |-> IF c = Loop THEN "waiting" ELSE "out"]
               /\ listed = {}
               /\ tick = FALSE
               /\ unchecked = NoProxyWait

-----------------------------------------------------------------------------
(***************************************************************************)
(* Rotator.Advance                                                         *)
(***************************************************************************)
CallAdvance(c) == /\ advance[c] = "out"
                  /\ advance' = [advance EXCEPT ![c] = "waiting"]

\* r.mu.Lock and ListProxies.
AdvanceList(c) ==
    /\ advance[c] = "waiting"
    /\ mu = NoCaller
    /\ mu' = c
    /\ listed' = rows
    /\ advance' = [advance EXCEPT ![c] = "listed"]
    /\ UNCHANGED <<idx, snap, tick, unchecked, tableVars>>

\* A return that forgets the mutex.
AdvanceFailsLocked(c) ==
    /\ advance[c] = "waiting"
    /\ mu = NoCaller
    /\ mu' = c
    /\ advance' = [advance EXCEPT ![c] = "out"]
    /\ UNCHANGED <<idx, snap, listed, tick, unchecked, tableVars>>

\* The listing fails (a SQLite error, or the request's context is done):
\* Advance returns the error, the old snapshot stays.
AdvanceFails(c) ==
    /\ advance[c] = "waiting"
    /\ mu = NoCaller
    /\ advance' = [advance EXCEPT ![c] = "out"]
    /\ UNCHANGED <<mu, idx, snap, listed, tick, unchecked, tableVars>>

\* An index past the end of a list of n rows starts over.
Wrapped(i, n) == IF i >= n THEN 0 ELSE i

\* An index that an empty pool leaves alone.
PublishNoneKeepsIdx == /\ listed = {}
                       /\ idx' = idx
                       /\ \E h \in Holds : snap' = [row |-> NoRow, left |-> h]

PublishNone == /\ listed = {}
               /\ idx' = 0
               /\ \E h \in Holds : snap' = [row |-> NoRow, left |-> h]

\* The index starts over one row too early.
PublishNextShort ==
    LET n == Cardinality(listed)
        i == Wrapped(idx, n)
    IN  \E p \in listed, h \in Holds :
            /\ Rank(p, listed) = i
            /\ idx' = Wrapped(i + 1, n - 1)
            /\ snap' = [row |-> p, left |-> h]

PublishNext ==
    LET n == Cardinality(listed)
        i == Wrapped(idx, n)
    IN  \E p \in listed, h \in Holds :
            /\ Rank(p, listed) = i
            /\ idx' = Wrapped(i + 1, n)
            /\ snap' = [row |-> p, left |-> h]

\* The snapshot is stored and mu released.  The hold time is the one the
\* caller read from the settings before it called.
AdvancePublish(c) ==
    /\ mu = c
    /\ advance[c] = "listed"
    /\ PublishNone \/ PublishNext
    /\ mu' = NoCaller
    /\ listed' = {}
    /\ advance' = [advance EXCEPT ![c] = "out"]
    /\ UNCHANGED <<tick, unchecked, tableVars>>

-----------------------------------------------------------------------------
(***************************************************************************)
(* runRotator                                                              *)
(***************************************************************************)

\* Two incomplete loops: one never looks at ExpiresAt, the other never looks at
\* the table again once it has no exit.
LoopTickNoExpiry ==
    /\ tick
    /\ tick' = FALSE
    /\ IF HasProxy \/ unchecked < NoProxyWait
       THEN advance[Loop] = "out" /\ UNCHANGED <<advance, unchecked>>
       ELSE CallAdvance(Loop) /\ unchecked' = 0
    /\ UNCHANGED <<mu, idx, snap, listed, tableVars>>

LoopTickNoRefill ==
    /\ tick
    /\ tick' = FALSE
    /\ IF HasProxy /\ snap.left = 0
       THEN CallAdvance(Loop)
       ELSE advance[Loop] = "out" /\ UNCHANGED advance
    /\ UNCHANGED <<mu, idx, snap, listed, unchecked, tableVars>>

\* What a tick leads to: a held exit is kept until it expires; with no exit
\* the table is looked at only every NoProxyWait seconds.
LoopTick ==
    /\ tick
    /\ tick' = FALSE
    /\ \/ /\ HasProxy /\ snap.left > 0
          /\ advance[Loop] = "out"
          /\ UNCHANGED <<advance, unchecked>>
       \/ /\ HasProxy /\ snap.left = 0
          /\ CallAdvance(Loop)
          /\ UNCHANGED unchecked
       \/ /\ ~ HasProxy /\ unchecked < NoProxyWait
          /\ advance[Loop] = "out"
          /\ UNCHANGED <<advance, unchecked>>
       \/ /\ ~ HasProxy /\ unchecked = NoProxyWait
          /\ CallAdvance(Loop)
          /\ unchecked' = 0
    /\ UNCHANGED <<mu, idx, snap, listed, tableVars>>

\* A second passes.  A tick that finds the channel full is dropped.
Second ==
    /\ tick' = TRUE
    /\ snap' = [snap EXCEPT !.left = IF @ = 0 THEN 0 ELSE @ - 1]
    /\ unchecked' = IF unchecked < NoProxyWait THEN unchecked + 1 ELSE unchecked
    /\ UNCHANGED <<mu, idx, advance, listed, tableVars>>

-----------------------------------------------------------------------------
\* An admin request calls Advance.
AdminAdvance(a) == /\ CallAdvance(a)
                   /\ UNCHANGED <<mu, idx, snap, listed, tick, unchecked, tableVars>>

AdvanceStep(c) == AdvanceList(c) \/ AdvanceFails(c) \/ AdvancePublish(c)

RotatorStep == \/ \E c \in Callers : AdvanceStep(c)
               \/ LoopTick
               \/ Second

=============================================================================
