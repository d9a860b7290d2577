--------------------------- MODULE WatchdogProofs ---------------------------
(***************************************************************************)
(* The rails of the watchdog (Watchdog.tla) and the truth of its log, for  *)
(* any stall and interval, any number of heights, interventions and lost   *)
(* writes: through failing RPCs, dry runs, kills and lost answers.         *)
(***************************************************************************)
EXTENDS Watchdog, SequenceTheorems, TLAPS

\* A line of the log.
Line == [height : 0 .. MaxHeight,
         outcome : {"pending", "no-effect", "recovered"}]

TypeInv ==
    /\ height \in 1 .. MaxHeight
    /\ syncnode \in BOOLEAN /\ outbound \in BOOLEAN
    /\ pc \in {"idle", "height", "peers", "disconnect", "log", "save"}
    /\ dry \in BOOLEAN
    /\ mem \in Memory /\ state \in Memory
    /\ log \in Seq(Line)
    /\ quiet \in 0 .. Interval
    /\ spent \in Nat /\ losses \in Nat

\* What has been spent according to memory m, the mark of giving up aside.
Counted(m) == IF m.count < MaxInterv THEN m.count ELSE MaxInterv

\* Before the script acts it has room; once it has acted it is ahead of its
\* memory by one until it remembers, and of the state file until it saves.
BudgetInv ==
    /\ pc \notin {"log", "save"} => spent <= Counted(state) + losses
    /\ pc \in {"log", "save"} => spent <= Counted(state) + losses + 1
    /\ pc \in {"height", "peers", "disconnect", "save"} =>
           spent <= Counted(mem) + losses
    /\ pc \in {"disconnect", "log"} => mem.count < MaxInterv
    /\ pc = "log" => spent <= mem.count + 1 + losses

\* As long as nothing was lost, no memory dates the last disconnect further
\* back than it was, except between the disconnect and its record.
RateInv ==
    losses = 0 =>
        /\ pc \notin {"idle", "log"} => mem.last <= quiet
        /\ pc \notin {"log", "save"} => state.last <= quiet
        /\ pc = "disconnect" => mem.last >= Interval

\* The outcome still to be settled, if any, is that of a line that was
\* written at the remembered height.
Points(m) ==
    m.pending # 0 =>
        m.pending \in DOMAIN log /\ log[m.pending].height = m.height

TruthInv == Points(mem) /\ Points(state)

\* As long as nothing was lost, the only line without an outcome is the one
\* remembered: in the file while no script runs, in memory from then on.  A
\* script that has given up leaves nothing to settle.
SettledInv ==
    /\ losses = 0 => \A i \in DOMAIN log :
           log[i].outcome = "pending" <=>
               IF pc = "idle" THEN i = state.pending ELSE i = mem.pending
    /\ state.count > MaxInterv => state.pending = 0
    /\ pc = "height" => mem = state
    /\ pc \in {"peers", "disconnect", "log"} => mem.pending = 0
    /\ pc = "peers" => mem.count = state.count
    /\ pc = "save" /\ mem.count > MaxInterv => mem.pending = 0

Inv == TypeInv /\ BudgetInv /\ RateInv /\ TruthInv /\ SettledInv

-----------------------------------------------------------------------------
(* Types *)

LEMMA NoMemoryType ==
    NoMemory \in Memory
BY WatchdogAssumption DEF NoMemory, Memory, WatchdogAssumption

\* An age stays within its cap.
LEMMA CappedType ==
    ASSUME NEW cap \in Nat, NEW age \in 0 .. cap
    PROVE  Capped(age, cap) \in 0 .. cap
BY DEF Capped

\* Replacing an element of a sequence.
LEMMA Replaced ==
    ASSUME NEW S, NEW s \in Seq(S), NEW i \in DOMAIN s, NEW e \in S
    PROVE  LET r == [s EXCEPT ![i] = e]
           IN  /\ r \in Seq(S) /\ DOMAIN r = DOMAIN s /\ r[i] = e
               /\ \A j \in DOMAIN s : j # i => r[j] = s[j]
BY ExceptSeq

\* Patching a line's outcome keeps the log a log: of the same length, with
\* the same heights and the same other lines.
LEMMA Patched ==
    ASSUME log \in Seq(Line), NEW i \in DOMAIN log, NEW new,
           new \in {"pending", "no-effect", "recovered"},
           log' = [log EXCEPT ![i].outcome = new]
    PROVE  /\ log' \in Seq(Line) /\ DOMAIN log' = DOMAIN log
           /\ \A j \in DOMAIN log : log'[j].height = log[j].height
           /\ log'[i].outcome = new
           /\ \A j \in DOMAIN log : j # i => log'[j] = log[j]
<1>1. \A j \in DOMAIN log : log[j] \in Line
  OBVIOUS
<1>2. log' = [log EXCEPT ![i] = [log[i] EXCEPT !.outcome = new]]
  OBVIOUS
<1>3. [log[i] EXCEPT !.outcome = new] \in Line
      /\ [log[i] EXCEPT !.outcome = new].height = log[i].height
      /\ [log[i] EXCEPT !.outcome = new].outcome = new
  BY <1>1 DEF Line
<1> DEFINE line == [log[i] EXCEPT !.outcome = new]
<1> HIDE DEF Line, line
<1>4. /\ log' \in Seq(Line) /\ DOMAIN log' = DOMAIN log
      /\ log'[i] = line /\ \A j \in DOMAIN log : j # i => log'[j] = log[j]
  BY <1>2, <1>3, Replaced DEF line
<1> QED
  BY <1>3, <1>4 DEF line

\* A new line is the last one; the others stay.
LEMMA Appended ==
    ASSUME log \in Seq(Line), NEW line \in Line, log' = Append(log, line)
    PROVE  /\ log' \in Seq(Line) /\ Len(log') = Len(log) + 1
           /\ DOMAIN log = 1 .. Len(log) /\ DOMAIN log' = 1 .. Len(log')
           /\ log'[Len(log')] = line
           /\ \A j \in DOMAIN log : log'[j] = log[j]
OBVIOUS

\* Settling patches one line without an outcome, or none.
LEMMA Settled ==
    ASSUME Inv, pc = "height", Settle
    PROVE  /\ log' \in Seq(Line) /\ DOMAIN log' = DOMAIN log
           /\ losses' \in Nat /\ losses' >= losses
           /\ \A j \in DOMAIN log : log'[j].height = log[j].height
           /\ \A j \in DOMAIN log : log'[j] # log[j] =>
                  j = mem.pending /\ log'[j].outcome = Outcome
           /\ losses' = losses => \A j \in DOMAIN log :
                  j = mem.pending => log'[j].outcome # "pending"
<1>1. CASE UNCHANGED log /\ (mem.pending = 0 \/ losses' = losses + 1)
           /\ losses' \in {losses, losses + 1}
  BY <1>1 DEF Inv, TypeInv
<1>2. CASE mem.pending # 0 /\ UNCHANGED losses
           /\ log' = [log EXCEPT ![mem.pending].outcome =
                        IF @ = "pending" THEN Outcome ELSE @]
  <2> DEFINE i == mem.pending
             new == IF log[i].outcome = "pending" THEN Outcome
                                                  ELSE log[i].outcome
  <2>1. i \in DOMAIN log
    BY <1>2 DEF Inv, TruthInv, Points
  <2>2. log[i] \in Line
    BY <2>1 DEF Inv, TypeInv
  <2>3. new \in {"pending", "no-effect", "recovered"} /\ new # "pending"
    BY <2>2 DEF Outcome, Line
  <2>4. log' = [log EXCEPT ![i].outcome = new]
    BY <1>2
  <2>5. log[i].outcome # "pending" => log'[i] = log[i]
    BY <2>1, <2>2, <2>4 DEF Line, Inv, TypeInv
  <2>6. log \in Seq(Line) /\ losses \in Nat
    BY DEF Inv, TypeInv
  <2> HIDE DEF i, new
  <2>7. /\ log' \in Seq(Line) /\ DOMAIN log' = DOMAIN log
        /\ \A j \in DOMAIN log : log'[j].height = log[j].height
        /\ log'[i].outcome = new
        /\ \A j \in DOMAIN log : j # i => log'[j] = log[j]
    BY <2>1, <2>3, <2>4, <2>6, Patched
  <2>8. log[i].outcome = "pending" => new = Outcome
    BY DEF new
  <2>9. \A j \in DOMAIN log : log'[j] # log[j] =>
            j = i /\ log'[j].outcome = Outcome
    BY <2>5, <2>7, <2>8
  <2> QED
    BY <1>2, <2>3, <2>6, <2>7, <2>9 DEF i
<1> QED
  BY <1>1, <1>2 DEF Settle, Loses

\* The fields of a memory.
LEMMA MemoryFields ==
    ASSUME NEW m \in Memory
    PROVE  /\ m.height \in Nat /\ m.since \in Nat
           /\ m.last \in 0 .. Interval /\ m.count \in Nat
           /\ m.pending \in Nat
BY WatchdogAssumption DEF Memory, WatchdogAssumption

\* Replacing fields of a memory.
LEMMA MemoryUpdates ==
    ASSUME NEW m \in Memory, NEW h \in 0 .. MaxHeight,
           NEW c \in 0 .. MaxInterv + 1, NEW line \in Nat
    PROVE  /\ [m EXCEPT !.height = h, !.since = 0, !.count = 0,
                        !.pending = 0] \in Memory
           /\ [m EXCEPT !.pending = 0] \in Memory
           /\ [m EXCEPT !.count = c] \in Memory
           /\ [m EXCEPT !.last = 0, !.count = c, !.pending = line] \in Memory
<1> DEFINE H == 0 .. MaxHeight
           S == 0 .. Stall
           L == 0 .. Interval
           C == 0 .. MaxInterv + 1
<1>1. 0 \in S /\ 0 \in L /\ 0 \in C /\ 0 \in Nat /\ h \in H /\ c \in C
  BY WatchdogAssumption DEF WatchdogAssumption
<1>2. Memory = [height : H, since : S, last : L, count : C, pending : Nat]
  BY DEF Memory
<1> HIDE DEF H, S, L, C
<1> QED
  BY <1>1, <1>2

\* What a tick remembers is a memory, and which fields it changes.
LEMMA MemoryKept ==
    ASSUME Inv
    PROVE  /\ Progress \in Memory /\ StillThere \in Memory
           /\ mem.count = MaxInterv => [mem EXCEPT !.count = @ + 1] \in Memory
           /\ pc = "log" => \A line \in Nat :
                  [mem EXCEPT !.last = 0, !.count = @ + 1, !.pending = line]
                      \in Memory
<1>1. mem \in Memory /\ height \in 0 .. MaxHeight /\ mem.count \in Nat
  BY WatchdogAssumption, MemoryFields DEF Inv, TypeInv, WatchdogAssumption
<1>2. 0 \in 0 .. MaxInterv + 1 /\ 0 \in Nat
  BY WatchdogAssumption DEF WatchdogAssumption
<1>3. Progress \in Memory /\ StillThere \in Memory
  BY <1>1, <1>2, MemoryUpdates DEF Progress, StillThere
<1>4. ASSUME mem.count = MaxInterv
      PROVE  [mem EXCEPT !.count = @ + 1] \in Memory
  <2>1. mem.count + 1 \in 0 .. MaxInterv + 1
    BY <1>1, <1>4
  <2> QED
    BY <1>1, <1>2, <2>1, MemoryUpdates
<1>5. ASSUME pc = "log", NEW line \in Nat
      PROVE  [mem EXCEPT !.last = 0, !.count = @ + 1, !.pending = line]
                 \in Memory
  <2>1. mem.count < MaxInterv
    BY <1>5 DEF Inv, BudgetInv
  <2>2. mem.count + 1 \in 0 .. MaxInterv + 1
    BY <1>1, <2>1, WatchdogAssumption DEF WatchdogAssumption
  <2> QED
    BY <1>1, <1>2, <2>2, MemoryUpdates
<1> QED
  BY <1>3, <1>4, <1>5

LEMMA TypeKept ==
    ASSUME Inv, [Next]_vars
    PROVE  TypeInv'
<1> USE WatchdogAssumption DEF WatchdogAssumption
<1>1. TypeInv
  BY DEF Inv
<1>2. CASE NodeMoves
  BY <1>1, <1>2 DEF NodeMoves, TypeInv, scriptVars, fileVars, history
<1>3. CASE TimePasses
  <2>1. Capped(quiet, Interval) \in 0 .. Interval
        /\ Capped(state.since, Stall) \in 0 .. Stall
        /\ Capped(state.last, Interval) \in 0 .. Interval
    BY <1>1, CappedType DEF TypeInv, Memory
  <2>2. state' \in Memory
    BY <1>1, <1>3, <2>1 DEF TimePasses, TypeInv, Memory
  <2> QED
    BY <1>1, <1>3, <2>1, <2>2 DEF TimePasses, TypeInv, nodeVars, scriptVars
<1>4. CASE Start
  BY <1>1, <1>4 DEF Start, TypeInv, nodeVars, fileVars, history
<1>5. CASE HeightFails \/ PeersFail \/ DisconnectFails
  BY <1>1, <1>5, NoMemoryType DEF HeightFails, PeersFail, DisconnectFails,
     Exit, Leave, TypeInv, nodeVars, fileVars, history
<1>6. CASE HeightKnown
  <2>1. log' \in Seq(Line) /\ losses' \in Nat
    BY <1>6, Settled DEF HeightKnown
  <2>2. mem' \in Memory /\ spent' \in Nat /\ pc' \in {"save", "peers"}
    BY <1>1, <1>6, MemoryKept DEF HeightKnown, TypeInv
  <2> QED
    BY <1>1, <1>6, <2>1, <2>2 DEF HeightKnown, TypeInv, nodeVars
<1>7. CASE LeavesAlone \/ Intervenes
  BY <1>1, <1>7
     DEF LeavesAlone, Leave, Intervenes, TypeInv, nodeVars, fileVars, history
<1>8. CASE GivesUp
  <2>1. mem' \in Memory /\ pc' \in {"save", "idle"} /\ dry' \in BOOLEAN
    BY <1>1, <1>8, MemoryKept, NoMemoryType DEF GivesUp, Exit, TypeInv
  <2> QED
    BY <1>1, <1>8, <2>1 DEF GivesUp, TypeInv, nodeVars, fileVars, history
<1>9. CASE Disconnect
  BY <1>1, <1>9 DEF Disconnect, Loses, TypeInv, nodeVars, fileVars
<1>10. CASE Log
  <2>1. [height |-> mem.height, outcome |-> "pending"] \in Line
    BY <1>1 DEF TypeInv, Memory, Line
  <2>2. log' \in Seq(Line) /\ Len(log') \in Nat
    BY <1>1, <1>10, <2>1, Appended DEF Log, TypeInv
  <2>3. mem' \in Memory
    BY <1>10, <2>2, MemoryKept DEF Log, Remembers
  <2>4. losses' \in Nat
    BY <1>1, <1>10 DEF Log, Loses, TypeInv
  <2> QED
    BY <1>1, <1>10, <2>2, <2>3, <2>4 DEF Log, TypeInv, nodeVars
<1>11. CASE Save
  BY <1>1, <1>11, NoMemoryType DEF Save, Exit, TypeInv, nodeVars, history
<1>12. CASE Killed
  <2>1. losses' \in Nat
    BY <1>1, <1>12 DEF Killed, Loses, TypeInv
  <2> QED
    BY <1>1, <1>12, <2>1, NoMemoryType
       DEF Killed, Exit, TypeInv, nodeVars, fileVars
<1>13. CASE UNCHANGED vars
  BY <1>1, <1>13
     DEF vars, nodeVars, scriptVars, fileVars, history, TypeInv
<1> QED
  BY <1>2, <1>3, <1>4, <1>5, <1>6, <1>7, <1>8, <1>9, <1>10, <1>11, <1>12,
     <1>13 DEF Next, Runs, RpcFails

-----------------------------------------------------------------------------
(* The budget and the rate *)

LEMMA CountedType ==
    ASSUME Inv
    PROVE  Counted(mem) \in Nat /\ Counted(state) \in Nat
BY WatchdogAssumption, MemoryFields
   DEF Counted, Inv, TypeInv, WatchdogAssumption

LEMMA BudgetKeptByStep ==
    ASSUME Inv, [Next]_vars
    PROVE  BudgetInv'
<1> USE WatchdogAssumption DEF WatchdogAssumption, Counted
<1>1. BudgetInv /\ mem.count \in Nat /\ state.count \in Nat
      /\ spent \in Nat /\ losses \in Nat
  BY DEF Inv, TypeInv, Memory
<1>2. CASE NodeMoves
  BY <1>1, <1>2 DEF NodeMoves, BudgetInv, scriptVars, fileVars, history
<1>3. CASE TimePasses
  <2>1. state'.count = state.count
    BY <1>3 DEF TimePasses, Inv, TypeInv, Memory
  <2> QED
    BY <1>1, <1>3, <2>1 DEF TimePasses, BudgetInv, scriptVars
<1>4. CASE Start
  BY <1>1, <1>4 DEF Start, BudgetInv, fileVars, history
<1>5. CASE HeightFails \/ PeersFail \/ DisconnectFails
  BY <1>1, <1>5 DEF HeightFails, PeersFail, DisconnectFails, Exit, Leave,
     BudgetInv, fileVars, history
<1>6. CASE HeightKnown
  <2>1. losses' \in Nat /\ losses' >= losses /\ pc = "height"
    BY <1>6, Settled DEF HeightKnown
  <2>2. CASE height # mem.height
    <3>1. mem'.count = 0 /\ pc' = "save" /\ spent' = 0 /\ state' = state
      BY <1>6, <2>2 DEF HeightKnown, Progress, Inv, TypeInv, Memory
    <3>2. Counted(mem)' \in Nat /\ Counted(state)' \in Nat
      BY <1>1, <3>1
    <3>3. ASSUME NEW a \in Nat, NEW b \in Nat
          PROVE  0 <= a + b + 1 /\ 0 <= a + b
      OBVIOUS
    <3> HIDE DEF Counted
    <3>4. 0 <= Counted(state)' + losses' + 1
          /\ 0 <= Counted(mem)' + losses'
      BY <2>1, <3>2, <3>3, Zenon
    <3> QED
      BY <3>1, <3>4, Zenon DEF BudgetInv
  <2>3. CASE height = mem.height
    <3>1. mem'.count = mem.count /\ pc' \in {"save", "peers"}
          /\ spent' = spent /\ state' = state
      BY <1>6, <2>3 DEF HeightKnown, StillThere, Inv, TypeInv, Memory
    <3>2. Counted(mem)' = Counted(mem) /\ Counted(state)' = Counted(state)
      BY <3>1
    <3> HIDE DEF Counted
    <3> QED
      BY <1>1, <2>1, <3>1, <3>2, CountedType DEF BudgetInv
  <2> QED
    BY <2>2, <2>3
<1>7. CASE LeavesAlone \/ Intervenes
  BY <1>1, <1>7 DEF LeavesAlone, Leave, Intervenes, WithinBudget, BudgetInv,
     fileVars, history
<1>8. CASE GivesUp
  <2>1. pc = "peers" /\ state' = state /\ spent' = spent /\ losses' = losses
    BY <1>8 DEF GivesUp, fileVars, history
  <2>2. CASE pc' = "idle"
    BY <1>1, <2>1, <2>2 DEF BudgetInv
  <2>3. CASE pc' = "save" /\ mem.count = MaxInterv
             /\ mem' = [mem EXCEPT !.count = @ + 1]
    <3>1. mem'.count = mem.count + 1
      BY <2>3 DEF Inv, TypeInv, Memory
    <3> QED
      BY <1>1, <2>1, <2>3, <3>1 DEF BudgetInv
  <2> QED
    BY <1>8, <2>2, <2>3 DEF GivesUp, Exit
<1>9. CASE Disconnect
  BY <1>1, <1>9 DEF Disconnect, Loses, BudgetInv, fileVars
<1>10. CASE Log
  <2>1. mem'.count = mem.count + 1
    BY <1>10 DEF Log, Remembers, Inv, TypeInv, Memory
  <2>2. pc = "log" /\ pc' = "save" /\ state' = state /\ spent' = spent
        /\ losses' \in {losses, losses + 1}
    BY <1>10 DEF Log, Loses
  <2>3. Counted(mem)' = mem.count + 1 /\ Counted(state)' = Counted(state)
    BY <1>1, <2>1, <2>2 DEF BudgetInv
  <2> HIDE DEF Counted
  <2> QED
    BY <1>1, <2>1, <2>2, <2>3, CountedType DEF BudgetInv
<1>11. CASE Save
  BY <1>1, <1>11 DEF Save, Exit, BudgetInv, history
<1>12. CASE Killed
  BY <1>1, <1>12 DEF Killed, Exit, Loses, BudgetInv, fileVars
<1>13. CASE UNCHANGED vars
  BY <1>1, <1>13 DEF vars, scriptVars, fileVars, history, BudgetInv
<1> QED
  BY <1>2, <1>3, <1>4, <1>5, <1>6, <1>7, <1>8, <1>9, <1>10, <1>11, <1>12,
     <1>13 DEF Next, Runs, RpcFails

LEMMA RateKeptByStep ==
    ASSUME Inv, [Next]_vars
    PROVE  RateInv'
<1> USE WatchdogAssumption DEF WatchdogAssumption
<1> SUFFICES ASSUME losses' = 0
             PROVE  RateInv'
  BY DEF RateInv
<1>1. RateInv /\ losses \in Nat /\ quiet \in 0 .. Interval
      /\ mem.last \in 0 .. Interval /\ state.last \in 0 .. Interval
  BY DEF Inv, TypeInv, Memory
<1>2. CASE NodeMoves
  BY <1>1, <1>2 DEF NodeMoves, RateInv, scriptVars, fileVars, history
<1>3. CASE TimePasses
  <2>1. state'.last = Capped(state.last, Interval)
    BY <1>3 DEF TimePasses, Inv, TypeInv, Memory
  <2> QED
    BY <1>1, <1>3, <2>1 DEF TimePasses, Capped, RateInv, scriptVars
<1>4. CASE Start
  BY <1>1, <1>4 DEF Start, RateInv, fileVars, history
<1>5. CASE HeightFails \/ PeersFail \/ DisconnectFails
  BY <1>1, <1>5 DEF HeightFails, PeersFail, DisconnectFails, Exit, Leave,
     RateInv, fileVars, history
<1>6. CASE HeightKnown
  <2>1. losses = 0
    BY <1>1, <1>6, Settled DEF HeightKnown
  <2>2. mem'.last = mem.last
    BY <1>6 DEF HeightKnown, Progress, StillThere, Inv, TypeInv, Memory
  <2>3. pc = "height" /\ pc' \in {"save", "peers"} /\ quiet' = quiet
        /\ state' = state
    BY <1>6 DEF HeightKnown
  <2> QED
    BY <1>1, <2>1, <2>2, <2>3 DEF RateInv
<1>7. CASE LeavesAlone \/ Intervenes
  BY <1>1, <1>7 DEF LeavesAlone, Leave, Intervenes, Rested, RateInv,
     fileVars, history
<1>8. CASE GivesUp
  <2>1. pc = "peers" /\ state' = state /\ quiet' = quiet /\ losses' = losses
    BY <1>8 DEF GivesUp, fileVars, history
  <2>2. pc' = "idle" \/ (pc' = "save" /\ mem'.last = mem.last)
    BY <1>8 DEF GivesUp, Exit, Inv, TypeInv, Memory
  <2> QED
    BY <1>1, <2>1, <2>2 DEF RateInv
<1>9. CASE Disconnect
  BY <1>1, <1>9 DEF Disconnect, Loses, RateInv
<1>10. CASE Log
  <2>1. mem'.last = 0
    BY <1>10 DEF Log, Remembers, Inv, TypeInv, Memory
  <2> QED
    BY <1>1, <1>10, <2>1 DEF Log, RateInv
<1>11. CASE Save
  BY <1>1, <1>11 DEF Save, Exit, RateInv, history
<1>12. CASE Killed
  BY <1>1, <1>12 DEF Killed, Loses
<1>13. CASE UNCHANGED vars
  BY <1>1, <1>13 DEF vars, scriptVars, fileVars, history, RateInv
<1> QED
  BY <1>2, <1>3, <1>4, <1>5, <1>6, <1>7, <1>8, <1>9, <1>10, <1>11, <1>12,
     <1>13 DEF Next, Runs, RpcFails
-----------------------------------------------------------------------------
(* The log *)

\* A memory that points at its line still does when lines are patched and
\* added.
LEMMA StillPoints ==
    ASSUME NEW m, Points(m), DOMAIN log \subseteq DOMAIN log',
           \A j \in DOMAIN log : log'[j].height = log[j].height,
           NEW m2, m2.pending \in {m.pending, 0},
           m2.pending # 0 => m2.height = m.height
    PROVE  m2.pending # 0 => /\ m2.pending \in DOMAIN log'
                             /\ log'[m2.pending].height = m2.height
BY DEF Points

LEMMA TruthKeptByStep ==
    ASSUME Inv, [Next]_vars
    PROVE  TruthInv'
<1>1. Points(mem) /\ Points(state) /\ NoMemory.pending = 0
      /\ mem \in Memory /\ state \in Memory
  BY DEF Inv, TypeInv, TruthInv, NoMemory
<1>2. ASSUME UNCHANGED log, mem' \in {mem, state, NoMemory},
             state' \in {state, mem}
      PROVE  TruthInv'
  BY <1>1, <1>2 DEF TruthInv, Points
<1>3. CASE NodeMoves \/ UNCHANGED vars
  BY <1>2, <1>3 DEF NodeMoves, scriptVars, fileVars, vars
<1>4. CASE TimePasses
  <2>1. mem' = mem /\ log' = log /\ state'.pending = state.pending
        /\ state'.height = state.height
    BY <1>1, <1>4 DEF TimePasses, scriptVars, Memory
  <2> QED
    BY <1>1, <2>1 DEF TruthInv, Points
<1>5. CASE Start \/ HeightFails \/ PeersFail \/ DisconnectFails \/ Killed
  BY <1>2, <1>5 DEF Start, HeightFails, PeersFail, DisconnectFails, Killed,
     Exit, Leave, fileVars
<1>6. CASE HeightKnown
  <2>1. mem'.pending = 0
    BY <1>1, <1>6 DEF HeightKnown, Progress, StillThere, Memory
  <2>2. DOMAIN log' = DOMAIN log
        /\ \A j \in DOMAIN log : log'[j].height = log[j].height
    BY <1>6, Settled DEF HeightKnown
  <2>3. state' = state
    BY <1>6 DEF HeightKnown
  <2> QED
    BY <1>1, <2>1, <2>2, <2>3 DEF TruthInv, Points
<1>7. CASE LeavesAlone \/ Intervenes \/ Disconnect
  BY <1>2, <1>7 DEF LeavesAlone, Leave, Intervenes, Disconnect, fileVars
<1>8. CASE GivesUp
  <2>1. log' = log /\ state' = state
    BY <1>8 DEF GivesUp, fileVars
  <2>2. mem'.pending = 0
    BY <1>1, <1>8 DEF GivesUp, Exit, Memory, Inv, SettledInv
  <2> QED
    BY <1>1, <2>1, <2>2 DEF TruthInv, Points
<1>9. CASE Log
  <2>1. state' = state
    BY <1>9 DEF Log
  <2>2. CASE log' = log /\ Remembers(0)
    <3>1. mem'.pending = 0
      BY <1>1, <2>2 DEF Remembers, Memory
    <3> QED
      BY <1>1, <2>1, <2>2, <3>1 DEF TruthInv, Points
  <2>3. CASE log' = Append(log, [height |-> mem.height, outcome |-> "pending"])
             /\ Remembers(Len(log'))
    <3> DEFINE line == [height |-> mem.height, outcome |-> "pending"]
    <3>1. line \in Line /\ line.height = mem.height /\ log \in Seq(Line)
      BY <1>1 DEF Memory, Line, Inv, TypeInv
    <3>2. /\ Len(log') = Len(log) + 1 /\ Len(log) \in Nat
          /\ DOMAIN log = 1 .. Len(log) /\ DOMAIN log' = 1 .. Len(log')
          /\ log'[Len(log')] = line
          /\ \A j \in DOMAIN log : log'[j] = log[j]
      BY <2>3, <3>1, Appended
    <3>3. mem'.pending = Len(log') /\ mem'.height = mem.height
      BY <1>1, <2>3 DEF Remembers, Memory
    <3>4. Len(log') \in DOMAIN log' /\ DOMAIN log \subseteq DOMAIN log'
      BY <3>2
    <3> HIDE DEF line
    <3>5. Points(mem)'
      BY <3>1, <3>2, <3>3, <3>4 DEF Points
    <3>6. Points(state)'
      BY <1>1, <2>1, <3>2, <3>4 DEF Points
    <3> QED
      BY <3>5, <3>6 DEF TruthInv
  <2> QED
    BY <1>9, <2>2, <2>3 DEF Log
<1>10. CASE Save
  BY <1>2, <1>10 DEF Save, Exit
<1> QED
  BY <1>3, <1>4, <1>5, <1>6, <1>7, <1>8, <1>9, <1>10
     DEF Next, Runs, RpcFails

LEMMA SettledKeptByStep ==
    ASSUME Inv, [Next]_vars
    PROVE  SettledInv'
<1>1. SettledInv /\ mem \in Memory /\ state \in Memory
      /\ mem.count \in Nat /\ state.count \in Nat
      /\ mem.pending \in Nat /\ state.pending \in Nat
      /\ losses \in Nat /\ log \in Seq(Line)
  BY MemoryFields DEF Inv, TypeInv
<1>2. 0 \notin DOMAIN log
  BY <1>1
<1>3. CASE NodeMoves \/ UNCHANGED vars
  BY <1>1, <1>3
     DEF NodeMoves, scriptVars, fileVars, history, vars, SettledInv
<1>4. CASE TimePasses
  <2>1. pc = "idle" /\ pc' = "idle" /\ mem' = mem /\ log' = log
        /\ losses' = losses
        /\ state'.pending = state.pending /\ state'.count = state.count
    BY <1>1, <1>4 DEF TimePasses, scriptVars, Memory
  <2> QED
    BY <1>1, <2>1 DEF SettledInv
<1>5. CASE Start
  BY <1>1, <1>5 DEF Start, fileVars, history, SettledInv
<1>6. CASE HeightFails
  BY <1>1, <1>6 DEF HeightFails, Exit, fileVars, history, SettledInv
<1>7. CASE PeersFail \/ DisconnectFails \/ LeavesAlone \/ Intervenes
  BY <1>1, <1>7 DEF PeersFail, DisconnectFails, LeavesAlone, Leave,
     Intervenes, fileVars, history, SettledInv
<1>8. CASE HeightKnown
  <2>1. pc = "height" /\ pc' \in {"save", "peers"} /\ state' = state
        /\ mem'.pending = 0 /\ (pc' = "peers" => mem'.count = mem.count)
    BY <1>1, <1>8 DEF HeightKnown, Progress, StillThere, Memory
  <2>2. /\ DOMAIN log' = DOMAIN log /\ losses' \in Nat /\ losses' >= losses
        /\ \A j \in DOMAIN log : log'[j] # log[j] =>
               j = mem.pending /\ log'[j].outcome = Outcome
        /\ losses' = losses => \A j \in DOMAIN log :
               j = mem.pending => log'[j].outcome # "pending"
    BY <1>8, Settled DEF HeightKnown
  <2>3. ASSUME losses' = 0, NEW j \in DOMAIN log'
        PROVE  log'[j].outcome = "pending" <=> j = mem'.pending
    <3>1. losses = 0 /\ losses' = losses
      BY <1>1, <2>2, <2>3
    <3>2. log[j].outcome = "pending" <=> j = mem.pending
      BY <1>1, <2>1, <2>2, <2>3, <3>1 DEF SettledInv
    <3>3. log'[j].outcome # "pending"
      BY <2>2, <2>3, <3>1, <3>2
    <3> QED
      BY <1>2, <2>1, <2>2, <2>3, <3>3
  <2> QED
    BY <1>1, <2>1, <2>3 DEF SettledInv
<1>9. CASE GivesUp
  <2>1. pc = "peers" /\ mem.pending = 0 /\ mem.count = state.count
        /\ log' = log /\ state' = state /\ losses' = losses
    BY <1>1, <1>9 DEF GivesUp, fileVars, history, SettledInv
  <2>2. CASE mem.count = MaxInterv
    <3>1. mem'.pending = 0 /\ pc' = "save"
      BY <1>1, <1>9, <2>1, <2>2 DEF GivesUp, Memory
    <3> QED
      BY <1>1, <2>1, <3>1 DEF SettledInv
  <2>3. CASE mem.count # MaxInterv
    <3>1. pc' = "idle" /\ state.count > MaxInterv
      BY <1>1, <1>9, <2>1, <2>3, WatchdogAssumption
         DEF GivesUp, Exit, WithinBudget, WatchdogAssumption
    <3>2. state.pending = 0
      BY <1>1, <3>1 DEF SettledInv
    <3> QED
      BY <1>1, <2>1, <3>1, <3>2 DEF SettledInv
  <2> QED
    BY <2>2, <2>3
<1>10. CASE Disconnect
  BY <1>1, <1>10 DEF Disconnect, Loses, fileVars, SettledInv, Inv, BudgetInv
<1>11. CASE Log
  <2>1. pc = "log" /\ pc' = "save" /\ state' = state /\ mem.pending = 0
        /\ mem.count < MaxInterv
    BY <1>1, <1>11 DEF Log, SettledInv, Inv, BudgetInv
  <2>2. mem'.count = mem.count + 1
    BY <1>1, <1>11 DEF Log, Remembers, Memory
  <2>3. ~ mem'.count > MaxInterv
    BY <1>1, <2>1, <2>2, WatchdogAssumption DEF WatchdogAssumption
  <2>4. ASSUME losses' = 0, NEW j \in DOMAIN log'
        PROVE  log'[j].outcome = "pending" <=> j = mem'.pending
    <3> DEFINE line == [height |-> mem.height, outcome |-> "pending"]
    <3>1. line \in Line /\ line.outcome = "pending"
      BY <1>1 DEF Memory, Line
    <3>2. losses = 0 /\ log' = Append(log, line) /\ Remembers(Len(log'))
      BY <1>1, <1>11, <2>4 DEF Log, Loses
    <3>3. mem'.pending = Len(log')
      BY <1>1, <3>2 DEF Remembers, Memory
    <3>4. /\ Len(log') = Len(log) + 1 /\ Len(log) \in Nat
          /\ DOMAIN log = 1 .. Len(log) /\ DOMAIN log' = 1 .. Len(log')
          /\ log'[Len(log')] = line
          /\ \A i \in DOMAIN log : log'[i] = log[i]
      BY <1>1, <3>1, <3>2, Appended
    <3>5. CASE j = Len(log')
      BY <3>1, <3>3, <3>4, <3>5
    <3>6. CASE j # Len(log')
      <4>1. j \in DOMAIN log
        BY <2>4, <3>4, <3>6
      <4>2. log[j].outcome # "pending"
        BY <1>1, <1>2, <2>1, <3>2, <4>1 DEF SettledInv
      <4> QED
        BY <3>3, <3>4, <3>6, <4>1, <4>2
    <3> QED
      BY <3>5, <3>6
  <2> QED
    BY <1>1, <2>1, <2>3, <2>4 DEF SettledInv
<1>12. CASE Save
  BY <1>1, <1>12 DEF Save, Exit, history, SettledInv
<1>13. CASE Killed
  <2>1. losses' # 0
    BY <1>1, <1>13 DEF Killed, Loses
  <2> QED
    BY <1>1, <1>13, <2>1 DEF Killed, Exit, fileVars, SettledInv
<1> QED
  BY <1>3, <1>4, <1>5, <1>6, <1>7, <1>8, <1>9, <1>10, <1>11, <1>12, <1>13
     DEF Next, Runs, RpcFails
-----------------------------------------------------------------------------
(* What holds of the watchdog *)

LEMMA InvInit ==
    Init => Inv
<1> SUFFICES ASSUME Init PROVE Inv
  OBVIOUS
<1> USE WatchdogAssumption DEF WatchdogAssumption
<1>1. NoMemory.count = 0 /\ NoMemory.pending = 0 /\ NoMemory.last = Interval
  BY DEF NoMemory
<1>2. log \in Seq(Line) /\ DOMAIN log = {}
  <2>1. DOMAIN <<>> = {}
    OBVIOUS
  <2> QED
    BY <2>1 DEF Init
<1>3. TypeInv
  <2>1. quiet \in 0 .. Interval /\ spent \in Nat /\ losses \in Nat
    BY DEF Init
  <2>2. mem \in Memory /\ state \in Memory
        /\ pc \in {"idle", "height", "peers", "disconnect", "log", "save"}
    BY NoMemoryType DEF Init
  <2>3. height \in 1 .. MaxHeight /\ syncnode \in BOOLEAN
        /\ outbound \in BOOLEAN /\ dry \in BOOLEAN
    BY DEF Init
  <2> QED
    BY <1>2, <2>1, <2>2, <2>3, Zenon DEF TypeInv
<1>4. BudgetInv
  BY <1>1 DEF Init, BudgetInv, Counted
<1>5. RateInv
  BY <1>1 DEF Init, RateInv
<1>6. TruthInv
  BY <1>1 DEF Init, TruthInv, Points
<1>7. SettledInv
  BY <1>1, <1>2 DEF Init, SettledInv
<1> QED
  BY <1>3, <1>4, <1>5, <1>6, <1>7 DEF Inv

LEMMA InvStep ==
    ASSUME Inv, [Next]_vars
    PROVE  Inv'
BY TypeKept, BudgetKeptByStep, RateKeptByStep, TruthKeptByStep,
   SettledKeptByStep DEF Inv

\* Between two ticks that see the height move, no more peers are
\* disconnected than MAX_INTERVENTIONS, plus one for everything lost.
THEOREM WatchdogBudget ==
    Spec => []BudgetKept
<1>1. ASSUME Inv
      PROVE  BudgetKept
  <2>1. spent \in Nat /\ losses \in Nat /\ MaxInterv \in Nat
        /\ mem.count \in Nat /\ state.count \in Nat
    BY <1>1, MemoryFields, WatchdogAssumption
       DEF Inv, TypeInv, WatchdogAssumption
  <2>2. Counted(mem) \in Nat /\ Counted(mem) <= MaxInterv
        /\ Counted(state) \in Nat /\ Counted(state) <= MaxInterv
    BY <2>1 DEF Counted
  <2>3. pc \in {"idle", "height", "peers", "disconnect", "log", "save"}
    BY <1>1 DEF Inv, TypeInv
  <2>4. CASE pc = "log"
    BY <1>1, <2>1, <2>4 DEF Inv, BudgetInv, BudgetKept
  <2>5. CASE pc = "save"
    BY <1>1, <2>1, <2>2, <2>5 DEF Inv, BudgetInv, BudgetKept
  <2>6. CASE pc \notin {"log", "save"}
    BY <1>1, <2>1, <2>2, <2>6 DEF Inv, BudgetInv, BudgetKept
  <2> QED
    BY <2>3, <2>4, <2>5, <2>6
<1> QED
  BY <1>1, InvInit, InvStep, PTL DEF Spec

\* As long as nothing was lost, two disconnects are INTERVAL_MIN apart,
\* across stalls, outages and dry runs.
THEOREM WatchdogRate ==
    Spec => RateLimited
<1>1. ASSUME Inv, [Next]_vars
      PROVE  [spent' > spent /\ losses = 0 => quiet >= Interval]_vars
  <2> SUFFICES ASSUME Next, spent' > spent, losses = 0
               PROVE  quiet >= Interval
    BY <1>1
  <2>1. spent \in Nat /\ quiet \in 0 .. Interval /\ Interval \in Nat
        /\ mem.last \in 0 .. Interval
    BY <1>1, MemoryFields, WatchdogAssumption
       DEF Inv, TypeInv, WatchdogAssumption
  <2>2. CASE Disconnect
    BY <1>1, <2>1, <2>2 DEF Disconnect, Inv, RateInv
  <2>3. ASSUME spent' \in {spent, 0}
        PROVE  FALSE
    BY <2>1, <2>3
  <2> QED
    BY <2>2, <2>3 DEF Next, NodeMoves, TimePasses, Start, Runs, RpcFails,
       HeightFails, PeersFail, DisconnectFails, HeightKnown, LeavesAlone,
       Leave, GivesUp, Intervenes, Log, Save, Killed, history
<1> QED
  BY <1>1, InvInit, InvStep, PTL DEF Spec, RateLimited

\* As long as nothing was lost, a line that is still without an outcome
\* between two ticks is the one the state file remembers, and no other.
THEOREM WatchdogSettles ==
    Spec => []LogSettled
<1>1. Inv => LogSettled
  BY DEF Inv, SettledInv, LogSettled
<1> QED
  BY <1>1, InvInit, InvStep, PTL DEF Spec

\* Whatever was lost, a line gets its outcome by the height it was written at.
THEOREM WatchdogTruth ==
    Spec => OutcomesTruthful
<1> DEFINE Truth == \A i \in DOMAIN log :
        log'[i] # log[i] =>
            log'[i].outcome =
                (IF height = log[i].height THEN "no-effect" ELSE "recovered")
<1>1. ASSUME Inv, [Next]_vars
      PROVE  [Truth]_vars
  <2> SUFFICES ASSUME Next
               PROVE  Truth
    BY <1>1
  <2>1. CASE HeightKnown
    <3>1. Outcome = IF height = mem.height THEN "no-effect" ELSE "recovered"
      BY DEF Outcome
    <3>2. ASSUME NEW i \in DOMAIN log, log'[i] # log[i]
          PROVE  i = mem.pending /\ log'[i].outcome = Outcome
      BY <1>1, <2>1, <3>2, Settled DEF HeightKnown
    <3>3. ASSUME NEW i \in DOMAIN log, i = mem.pending
          PROVE  log[i].height = mem.height
      <4>1. i # 0
        BY <1>1, <3>3 DEF Inv, TypeInv
      <4> QED
        BY <1>1, <3>3, <4>1 DEF Inv, TruthInv, Points
    <3> QED
      BY <3>1, <3>2, <3>3
  <2>2. CASE Log
    <3>1. [height |-> mem.height, outcome |-> "pending"] \in Line
          /\ log \in Seq(Line)
      BY <1>1 DEF Inv, TypeInv, Memory, Line
    <3>2. \A i \in DOMAIN log : log'[i] = log[i]
      BY <2>2, <3>1, Appended DEF Log
    <3> QED
      BY <3>2
  <2>3. CASE log' = log
    BY <2>3
  <2> QED
    BY <2>1, <2>2, <2>3 DEF Next, NodeMoves, TimePasses, Start, Runs,
       RpcFails, HeightFails, PeersFail, DisconnectFails, LeavesAlone, Leave,
       GivesUp, Intervenes, Disconnect, Save, Killed, fileVars
<1> QED
  BY <1>1, InvInit, InvStep, PTL DEF Spec, OutcomesTruthful
=============================================================================
