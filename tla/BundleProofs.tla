----------------------------- MODULE BundleProofs -----------------------------
(***************************************************************************)
(* What atomic_replace_bundle guarantees for every number of processes,    *)
(* transactions, errors and foreign saves, and crashes at every step.      *)
(***************************************************************************)
EXTENDS BundleTransaction, TLAPS

-----------------------------------------------------------------------------
(* The inductive invariant.                                                  *)

Foreign(i) == dest[i] \in Outsiders
HasForeign(u) == \E i \in Items : u[i] \in Outsiders
Known(u) == u \in Whole \/ HasForeign(u)

(* Every file is what the journal installs, or what it replaces, except for  *)
(* what another program wrote since.                                         *)
AtOutput(j) == \A i \in Items : IsOutput(j, i) \/ Foreign(i)
AtPrior(j) == \A i \in Items : IsPrior(j, i) \/ Foreign(i)

(* The replaced bytes of an item are in its backup.                          *)
Safe(j, i) == j.prior[i] # Absent => backup[j.txn][i] = j.prior[i]
AllSafe(j) == \A i \in Items : Safe(j, i)

(* The pair a draft is going to replace, as far as it has been read.         *)
Seen(p) == [i \in Items |-> IF call[p].journal.prior[i] = Null THEN dest[i]
                            ELSE call[p].journal.prior[i]]

Readable == journal \notin {Absent, Partial}
Drafting == {"stage", "backup", "journal"}
Installing == {"recheck", "replace", "verify"}
Holding == {"restore", "prove", "temp", "mark", "receipt", "clean"}
Places == Locked \cup {"idle", "called"}

OneInside == \A p, q \in Procs : pc[p] \in Locked /\ pc[q] \in Locked => p = q

JournalIsKnown == Readable => Known(journal.prior)

(* The journal on disk is the one the call works from, its state aside.      *)
Working(j) ==
    /\ j \in Journal /\ journal \in Journal
    /\ journal.txn = j.txn /\ journal.prior = j.prior

CallStarted(p) == pc[p] # "idle" => call[p].txn \in Txns /\ call[p].expected \in Pair

(* A call before its journal: what it has read is as it was, and backed up.  *)
ReadSoFar(p, i) ==
    \/ pc[p] = "journal"
    \/ pc[p] = "backup" /\ i < call[p].item
DraftFits(p) ==
    LET c == call[p]
    IN  /\ pc[p] \in Drafting =>
              /\ c.journal \in Draft /\ c.journal.txn = c.txn /\ c.journal.state = "prepared"
              /\ c.outcome = "committed" /\ c.then = "return"
              /\ Known(Seen(p))
              /\ \A i \in Items :
                    IF ReadSoFar(p, i)
                    THEN /\ c.journal.prior[i] # Null
                         /\ IsPrior(c.journal, i) \/ Foreign(i)
                         /\ Safe(c.journal, i)
                    ELSE c.journal.prior[i] = Null
        /\ pc[p] = "abort" => c.journal \in Draft /\ c.journal.txn = c.txn

(* A call with a journal of its own, until something goes wrong.             *)
AttemptFits(p) ==
    LET c == call[p]
    IN  pc[p] \in Published /\ c.then = "return" =>
            /\ c.journal \in Journal /\ c.journal.txn = c.txn /\ c.journal.state = "prepared"
            /\ c.outcome = "committed"
            /\ Known(c.journal.prior)
            /\ AllSafe(c.journal)

(* Where the journal on disk stands, and the two files, at each step.        *)
JournalFits(p) ==
    LET j == call[p].journal
    IN  /\ pc[p] = "recover" => j = journal
        /\ pc[p] \in {"scan", "done", "abort", "unpublish"} \cup Drafting => journal = Absent
        /\ pc[p] \in {"recover"} \cup Installing \cup Holding => Working(j)
        /\ pc[p] \in Installing => call[p].then = "return" /\ journal = j
        /\ pc[p] \in {"receipt", "clean"} => journal.state = call[p].outcome
        /\ pc[p] = "rollback" =>
              IF journal = Absent
              THEN /\ j \in Journal /\ j.state = "prepared"
                   /\ AtOutput(j) /\ Known(j.prior) /\ AllSafe(j)
              ELSE Working(j)
OutcomeFits(p) ==
    LET c == call[p]
    IN  /\ pc[p] \in {"rollback", "restore", "prove"} => c.outcome = "rolled_back"
        /\ pc[p] = "receipt" => c.outcome = "committed"
        /\ pc[p] \in {"rollback"} \cup Holding /\ c.outcome = "rolled_back" =>
              c.then # "return"
        /\ pc[p] = "done" => c.then = "return"
        /\ pc[p] \in {"temp", "mark", "receipt", "clean", "done"} =>
              IF c.outcome = "committed" THEN AtOutput(c.journal) ELSE AtPrior(c.journal)

CallFits(p) ==
    /\ CallStarted(p)
    /\ DraftFits(p) /\ AttemptFits(p) /\ JournalFits(p) /\ OutcomeFits(p)

FilesFit == NeverMixedAtRest /\ UndoIsPossible /\ JournalIsKnown

BundleInv == TypeOK /\ OneInside /\ FilesFit /\ \A p \in Procs : CallFits(p)

-----------------------------------------------------------------------------
(* Pairs and journals.                                                       *)

LEMMA PairsEqual ==
    ASSUME NEW u \in Pair, NEW v \in Pair, \A i \in Items : u[i] = v[i]
    PROVE  u = v
BY DEF Pair

LEMMA PayloadsArePairs ==
    \A t \in Txns : Payload[t] \in Pair /\ \A i \in Items : Payload[t][i] \in Contents
<1>1. \A t \in Txns : Payload[t] \in [Items -> Contents]
  BY BundleAssumption
<1> QED BY <1>1 DEF Pair

(* A draft that has read both items is a journal.                            *)
LEMMA DraftDone ==
    ASSUME NEW j \in Draft, \A i \in Items : j.prior[i] # Null
    PROVE  j \in Journal
<1>1. j.prior \in Pair
  BY DEF Draft, Pair
<1> QED BY <1>1 DEF Draft, Journal

LEMMA JournalsAreDrafts == Journal \subseteq Draft
<1>1. Pair \subseteq [Items -> Contents \cup {Absent, Null}]
  BY DEF Pair
<1> QED BY <1>1 DEF Journal, Draft

-----------------------------------------------------------------------------
(* What the steps do to the call of p.                                       *)

(* The calls of all others stay.                                             *)
OthersStay(p) == \A q \in Procs \ {p} : pc'[q] = pc[q] /\ call'[q] = call[q]
MovesTo(p, place, c) ==
    /\ OthersStay(p)
    /\ pc' \in [Procs -> Places] /\ call' \in [Procs -> CallType]
    /\ pc'[p] = place /\ call'[p] = c

LEMMA GoesTo ==
    ASSUME TypeOK, NEW p \in Procs, NEW place \in Places, NEW c \in CallType,
           pc' = [pc EXCEPT ![p] = place] \/ (UNCHANGED pc /\ place = pc[p]),
           call' = [call EXCEPT ![p] = c] \/ (UNCHANGED call /\ c = call[p])
    PROVE  MovesTo(p, place, c)
BY DEF TypeOK, MovesTo, OthersStay, Places

LEMMA NoCallTyped == NoCall \in CallType
BY DEF NoCall, CallType, Items

LEMMA Returns ==
    ASSUME TypeOK, NEW p \in Procs, Return(p)
    PROVE  MovesTo(p, "idle", NoCall)
BY NoCallTyped, GoesTo DEF Return, Goto, Places

LEMMA CallsOnlyMove ==
    ASSUME TypeOK, NEW p \in Procs, NEW place \in Places, Goto(p, place), UNCHANGED call
    PROVE  MovesTo(p, place, call[p])
<1>1. call[p] \in CallType
  BY DEF TypeOK
<1> QED BY <1>1, GoesTo DEF Goto

(* A change of course: how the call is to end, and what comes then.          *)
Turned(c, outcome, then) == [c EXCEPT !.outcome = outcome, !.then = then]
LEMMA TurnedTyped ==
    ASSUME NEW c \in CallType, NEW outcome \in {"committed", "rolled_back"},
           NEW then \in {"return", "scan", "replay", "raise", "unpublish"}
    PROVE  /\ Turned(c, outcome, then) \in CallType
           /\ Turned(c, outcome, then).txn = c.txn
           /\ Turned(c, outcome, then).expected = c.expected
           /\ Turned(c, outcome, then).journal = c.journal
           /\ Turned(c, outcome, then).item = c.item
           /\ Turned(c, outcome, then).outcome = outcome
           /\ Turned(c, outcome, then).then = then
BY DEF Turned, CallType

LEMMA CallTurns ==
    ASSUME TypeOK, NEW p \in Procs, NEW place \in Places,
           NEW outcome \in {"committed", "rolled_back"},
           NEW then \in {"return", "scan", "replay", "raise", "unpublish"},
           Goto(p, place),
           call' = [call EXCEPT ![p].outcome = outcome, ![p].then = then]
    PROVE  MovesTo(p, place, Turned(call[p], outcome, then))
<1>1. call[p] \in CallType
  BY DEF TypeOK
<1>2. Turned(call[p], outcome, then) \in CallType
  BY <1>1, TurnedTyped
<1>3. call' = [call EXCEPT ![p] = Turned(call[p], outcome, then)]
  BY DEF Turned
<1> QED BY <1>2, <1>3, GoesTo DEF Goto

-----------------------------------------------------------------------------
(* What a step has to show.                                                  *)

Alone(p) == \A q \in Procs \ {p} : pc[q] \notin Locked

LEMMA InsideAlone ==
    ASSUME BundleInv, NEW p \in Procs, pc[p] \in Locked
    PROVE  Alone(p)
BY DEF BundleInv, OneInside, Alone

(* A process outside the lock has no more to it than its call.               *)
LEMMA OutsideFits ==
    ASSUME NEW p \in Procs, CallStarted(p), pc[p] \notin Locked
    PROVE  CallFits(p)
BY DEF CallFits, DraftFits, AttemptFits, JournalFits, OutcomeFits, Locked, Drafting,
       Published, Installing, Holding

LEMMA SameFits ==
    ASSUME NEW p \in Procs, CallFits(p), pc'[p] = pc[p], call'[p] = call[p],
           UNCHANGED <<dest, evidence>>
    PROVE  CallFits(p)'
<1>1. /\ UNCHANGED <<dest, stage, backup, journal, journalTemp, receipts>>
      /\ Seen(p)' = Seen(p)
  BY DEF evidence, Seen
<1>2. CallStarted(p)'
  BY DEF CallFits, CallStarted
<1>3. DraftFits(p)'
  BY <1>1 DEF CallFits, DraftFits, ReadSoFar, Known, HasForeign, Foreign, IsPrior, Safe
<1>4. AttemptFits(p)'
  BY <1>1 DEF CallFits, AttemptFits, Known, HasForeign, AllSafe, Safe
<1>5. JournalFits(p)'
  BY <1>1 DEF CallFits, JournalFits, Working, AtOutput, IsOutput, Foreign, Known,
              HasForeign, AllSafe, Safe
<1>6. OutcomeFits(p)'
  BY <1>1 DEF CallFits, OutcomeFits, AtOutput, AtPrior, IsOutput, IsPrior, Foreign
<1> QED BY <1>2, <1>3, <1>4, <1>5, <1>6 DEF CallFits

(* The types of everything a step may change but pc and call.                *)
FilesTyped ==
    /\ dest \in Pair
    /\ stage \in [Txns -> [Items -> Slot]]
    /\ backup \in [Txns -> [Items -> Slot]]
    /\ journal \in Journal \cup {Absent, Partial}
    /\ journalTemp \in BOOLEAN
    /\ receipts \in [Txns -> Journal \cup {Absent, Partial}]
    /\ faults \in 0..MaxFaults

(* A step keeps the invariant if it keeps what concerns its process and the  *)
(* files, and works on the files only alone.                                 *)
LEMMA StepKeeps ==
    ASSUME BundleInv, NEW p \in Procs, NEW place, NEW c, MovesTo(p, place, c),
           Alone(p) \/ (place \notin Locked /\ UNCHANGED <<dest, evidence>>),
           FilesTyped', FilesFit', CallFits(p)'
    PROVE  BundleInv'
<1>1. TypeOK'
  BY DEF MovesTo, FilesTyped, TypeOK, Places
<1>2. OneInside'
  BY DEF BundleInv, OneInside, MovesTo, OthersStay, Alone
<1>3. ASSUME NEW q \in Procs
      PROVE  CallFits(q)'
  <2>1. CASE q = p
    BY <2>1
  <2>2. CASE q # p
    <3>1. pc'[q] = pc[q] /\ call'[q] = call[q] /\ CallFits(q)
      BY <2>2 DEF MovesTo, OthersStay, BundleInv
    <3>2. CASE pc[q] \in Locked
      <4>1. UNCHANGED <<dest, evidence>>
        BY <2>2, <3>2 DEF Alone
      <4> QED BY <3>1, <4>1, SameFits
    <3>3. CASE pc[q] \notin Locked
      <4>1. CallStarted(q)'
        BY <3>1 DEF CallFits, CallStarted
      <4>2. pc'[q] \notin Locked
        BY <3>1, <3>3
      <4> QED BY <4>1, <4>2
           DEF CallFits, DraftFits, AttemptFits, JournalFits, OutcomeFits, Locked, Drafting,
               Published, Installing, Holding
    <3> QED BY <3>2, <3>3
  <2> QED BY <2>1, <2>2
<1> QED BY <1>1, <1>2, <1>3 DEF BundleInv

(* Steps that leave the files alone have only their call to show.            *)
LEMMA LookingKeeps ==
    ASSUME BundleInv, NEW p \in Procs, NEW place, NEW c, MovesTo(p, place, c),
           UNCHANGED <<dest, evidence>>, faults' \in 0..MaxFaults,
           place \in Locked => Alone(p), CallFits(p)'
    PROVE  BundleInv'
<1>1. UNCHANGED <<dest, stage, backup, journal, journalTemp, receipts>>
  BY DEF evidence
<1>2. FilesTyped'
  BY <1>1 DEF BundleInv, TypeOK, FilesTyped
<1>3. FilesFit'
  BY <1>1 DEF BundleInv, FilesFit, NeverMixedAtRest, UndoIsPossible, JournalIsKnown,
              IsPrior, IsOutput, Readable, Known, HasForeign
<1> QED BY <1>2, <1>3, StepKeeps

(* Leaving the lock without touching the files.                              *)
LEMMA ReturningKeeps ==
    ASSUME BundleInv, NEW p \in Procs, Return(p), UNCHANGED <<dest, evidence>>,
           faults' \in 0..MaxFaults
    PROVE  BundleInv'
<1>1. MovesTo(p, "idle", NoCall)
  BY Returns DEF BundleInv
<1>2. "idle" \notin Locked
  BY DEF Locked
<1>3. CallFits(p)'
  BY <1>1, <1>2 DEF MovesTo, CallStarted, CallFits, DraftFits, AttemptFits, JournalFits,
     OutcomeFits, Locked, Drafting, Published, Installing, Holding
<1> QED BY <1>1, <1>2, <1>3, LookingKeeps

-----------------------------------------------------------------------------
(* Steps that only look at the files.                                        *)

LEMMA FaultsCount ==
    ASSUME TypeOK, Fault \/ UNCHANGED faults
    PROVE  faults' \in 0..MaxFaults
BY BundleAssumption DEF TypeOK, Fault

LEMMA RequestKeeps ==
    ASSUME BundleInv, NEW p \in Procs, NEW t \in Txns, Request(p, t)
    PROVE  BundleInv'
<1> DEFINE c == [NoCall EXCEPT !.txn = t, !.expected = dest]
<1>1. c \in CallType /\ c.txn = t /\ c.expected = dest /\ dest \in Pair
  BY NoCallTyped DEF BundleInv, TypeOK, NoCall, CallType
<1>2. call' = [call EXCEPT ![p] = c]
  BY DEF Request
<1> HIDE DEF c
<1>3. MovesTo(p, "called", c)
  BY <1>1, <1>2, GoesTo DEF Request, Goto, Places, BundleInv
<1>4. "called" \notin Locked /\ faults' \in 0..MaxFaults /\ UNCHANGED <<dest, evidence>>
  BY FaultsCount DEF Request, Locked, BundleInv
<1>5. CallFits(p)'
  BY <1>1, <1>3, <1>4 DEF MovesTo, CallStarted, CallFits, DraftFits, AttemptFits, JournalFits,
     OutcomeFits, Locked, Drafting, Published, Installing, Holding
<1> QED BY <1>3, <1>4, <1>5, LookingKeeps

LEMMA EnterKeeps ==
    ASSUME BundleInv, NEW p \in Procs, Enter(p)
    PROVE  BundleInv'
<1>0. UNCHANGED <<dest, evidence>> /\ faults' \in 0..MaxFaults /\ Alone(p)
  BY FaultsCount DEF Enter, Alone, BundleInv
<1>1. CASE Return(p)
  BY <1>0, <1>1, ReturningKeeps
<1>2. CASE journal = Absent /\ Goto(p, "scan") /\ UNCHANGED call /\ pc[p] = "called"
  <2>1. MovesTo(p, "scan", call[p])
    BY <1>2, CallsOnlyMove DEF BundleInv, Places, Locked
  <2>2. CallFits(p)'
    BY <1>0, <1>2, <2>1 DEF BundleInv, MovesTo, CallStarted, CallFits, DraftFits,
       AttemptFits, JournalFits, OutcomeFits, Drafting, Published, Installing, Holding, evidence
  <2> QED BY <1>0, <2>1, <2>2, LookingKeeps
<1>3. CASE /\ journal \notin {Absent, Partial} /\ Goto(p, "recover") /\ pc[p] = "called"
           /\ call' = [call EXCEPT ![p].journal = journal]
  <2> DEFINE c == [call[p] EXCEPT !.journal = journal]
  <2>1. journal \in Journal /\ journal' = journal
    BY <1>0, <1>3 DEF BundleInv, TypeOK, evidence
  <2>2. c \in CallType /\ c.txn = call[p].txn /\ c.expected = call[p].expected
        /\ c.journal = journal
    BY <2>1, JournalsAreDrafts DEF BundleInv, TypeOK, CallType
  <2>3. call' = [call EXCEPT ![p] = c]
    BY <1>3
  <2> HIDE DEF c
  <2>4. MovesTo(p, "recover", c)
    BY <1>3, <2>2, <2>3, GoesTo DEF BundleInv, Places, Locked, Goto
  <2>5. CallStarted(p)'
    BY <1>3, <2>2, <2>4 DEF BundleInv, CallFits, CallStarted, MovesTo
  <2>6. CallFits(p)'
    BY <2>1, <2>2, <2>4, <2>5 DEF MovesTo, CallFits, DraftFits,
       AttemptFits, JournalFits, OutcomeFits, Drafting, Published, Installing, Holding, Working
  <2> QED BY <1>0, <2>4, <2>6, LookingKeeps
<1> QED BY <1>1, <1>2, <1>3 DEF Enter

(* A turn keeps the journal.                                                 *)
LEMMA TurnFits ==
    ASSUME BundleInv, NEW p \in Procs, NEW place \in Places, pc[p] \in Locked,
           NEW outcome \in {"committed", "rolled_back"},
           NEW then \in {"return", "scan", "replay", "raise", "unpublish"},
           Goto(p, place), UNCHANGED <<dest, evidence>>, faults' \in 0..MaxFaults,
           call' = [call EXCEPT ![p].outcome = outcome, ![p].then = then],
           then # "return",
           \/ place \in {"temp", "receipt"} /\ outcome = "committed" /\ AtOutput(call[p].journal)
              /\ (place = "receipt" => journal.state = "committed")
              /\ Working(call[p].journal)
           \/ place = "rollback" /\ outcome = "rolled_back" /\ journal # Absent
              /\ Working(call[p].journal)
           \/ place = "rollback" /\ outcome = "rolled_back" /\ journal = Absent
              /\ call[p].journal \in Journal /\ call[p].journal.state = "prepared"
              /\ AtOutput(call[p].journal) /\ Known(call[p].journal.prior)
              /\ AllSafe(call[p].journal)
    PROVE  BundleInv'
<1> DEFINE c == Turned(call[p], outcome, then)
<1>1. MovesTo(p, place, c)
  BY CallTurns DEF BundleInv
<1>2. /\ c.txn = call[p].txn /\ c.expected = call[p].expected /\ c.journal = call[p].journal
      /\ c.outcome = outcome /\ c.then = then
  BY TurnedTyped DEF BundleInv, TypeOK
<1> HIDE DEF c
<1>3. UNCHANGED <<dest, stage, backup, journal, journalTemp, receipts>>
  BY DEF evidence
<1>4. CallStarted(p)'
  BY <1>1, <1>2 DEF BundleInv, CallFits, CallStarted, MovesTo, Locked
<1>5. DraftFits(p)' /\ AttemptFits(p)'
  BY <1>1, <1>2 DEF MovesTo, DraftFits, AttemptFits, Drafting, Published
<1>6. JournalFits(p)'
  BY <1>1, <1>2, <1>3 DEF MovesTo, JournalFits, Working, Installing, Holding, Drafting,
     AtOutput, IsOutput, Foreign, Known, HasForeign, AllSafe, Safe
<1>7. OutcomeFits(p)'
  BY <1>1, <1>2, <1>3 DEF MovesTo, OutcomeFits, Holding, AtOutput, IsOutput, Foreign
<1>8. CallFits(p)'
  BY <1>4, <1>5, <1>6, <1>7 DEF CallFits
<1> QED BY <1>1, <1>8, InsideAlone, LookingKeeps

LEMMA RecoverKeeps ==
    ASSUME BundleInv, NEW p \in Procs, Recover(p)
    PROVE  BundleInv'
<1> DEFINE j == call[p].journal
<1>0. /\ UNCHANGED <<dest, evidence>> /\ faults' \in 0..MaxFaults
      /\ pc[p] = "recover" /\ pc[p] \in Locked
      /\ j = journal /\ Working(j) /\ journal # Absent /\ journal \in Journal
  BY FaultsCount, BundleAssumption
     DEF BundleInv, CallFits, JournalFits, Recover, Locked, Working
<1>1. CASE Return(p)
  BY <1>0, <1>1, ReturningKeeps
<1>2. ASSUME AllOutput(j), j.state # "rolled_back", NEW then \in {"replay", "scan"},
             NEW place \in {"temp", "receipt"}, place = "receipt" => j.state = "committed",
             Goto(p, place),
             call' = [call EXCEPT ![p].outcome = "committed", ![p].then = then]
      PROVE  BundleInv'
  <2>1. AtOutput(j)
    BY <1>2 DEF AllOutput, AtOutput
  <2> QED BY <1>0, <1>2, <2>1, TurnFits DEF Places, Locked
<1>3. ASSUME NEW then \in {"raise", "scan"}, Goto(p, "rollback"),
             call' = [call EXCEPT ![p].outcome = "rolled_back", ![p].then = then]
      PROVE  BundleInv'
  BY <1>0, <1>3, TurnFits DEF Places, Locked
<1> QED BY <1>1, <1>2, <1>3 DEF Recover

LEMMA ScanKeeps ==
    ASSUME BundleInv, NEW p \in Procs, Scan(p)
    PROVE  BundleInv'
<1>0. /\ UNCHANGED <<dest, evidence>> /\ faults' \in 0..MaxFaults
      /\ pc[p] = "scan" /\ Alone(p) /\ journal = Absent /\ journal' = journal
      /\ call[p].txn \in Txns /\ call[p].expected \in Pair
  BY FaultsCount, InsideAlone
     DEF BundleInv, CallFits, CallStarted, JournalFits, Scan, Locked, evidence
<1>1. CASE Return(p)
  BY <1>0, <1>1, ReturningKeeps
<1>2. CASE ~Return(p)
  <2> DEFINE j == [txn |-> txn(p), state |-> "prepared", prior |-> [i \in Items |-> Null]]
  <2> DEFINE c == [NoCall EXCEPT !.txn = txn(p), !.expected = call[p].expected, !.journal = j]
  <2>1. j \in Draft /\ j.txn = call[p].txn /\ j.state = "prepared"
        /\ \A i \in Items : j.prior[i] = Null
    BY <1>0 DEF Draft, txn
  <2>2. Goto(p, "stage") /\ call' = [call EXCEPT ![p] = c]
    BY <1>2 DEF Scan
  <2> HIDE DEF j
  <2>3. /\ c \in CallType /\ c.txn = call[p].txn /\ c.expected = call[p].expected
        /\ c.journal = j /\ c.outcome = "committed" /\ c.then = "return"
    <3>1. j \in Draft \cup {Null} /\ txn(p) \in Txns \cup {Null}
          /\ call[p].expected \in Pair \cup {Null} /\ txn(p) = call[p].txn
      BY <1>0, <2>1 DEF txn
    <3> QED BY <3>1, NoCallTyped DEF CallType, NoCall
  <2> HIDE DEF c
  <2>4. MovesTo(p, "stage", c)
    BY <2>2, <2>3, GoesTo DEF Goto, BundleInv, Places, Locked
  <2>5. Known(Seen(p))'
    <3>1. dest' = dest /\ dest \in Pair
      BY <1>0 DEF BundleInv, TypeOK
    <3>2. Seen(p)' = dest
      BY <2>1, <2>3, <2>4, <3>1 DEF Seen, MovesTo, Pair
    <3>3. Known(dest)
      BY <1>0 DEF BundleInv, FilesFit, NeverMixedAtRest, Known, HasForeign
    <3> QED BY <3>2, <3>3 DEF Known, HasForeign
  <2>6. CallFits(p)'
    BY <1>0, <2>1, <2>3, <2>4, <2>5 DEF MovesTo, CallStarted, CallFits, DraftFits, ReadSoFar,
       AttemptFits, JournalFits, OutcomeFits, Drafting, Published, Installing, Holding
  <2> QED BY <1>0, <2>4, <2>6, LookingKeeps
<1> QED BY <1>1, <1>2

(* The except branch, from any step after the journal.                       *)
LEMMA HandleKeeps ==
    ASSUME BundleInv, NEW p \in Procs, pc[p] \in Published, call[p].then = "return",
           Handle(p), UNCHANGED <<dest, evidence>>, faults' \in 0..MaxFaults
    PROVE  BundleInv'
<1> DEFINE j == call[p].journal
<1>1. PICK then \in {"unpublish", "raise"} :
          call' = [call EXCEPT ![p].outcome = "rolled_back", ![p].then = then]
  BY DEF Handle
<1>2. Goto(p, "rollback") /\ pc[p] \in Locked /\ "rollback" \in Places
  BY DEF Handle, Published, Places, Locked
<1>3. /\ j \in Journal /\ j.state = "prepared" /\ call[p].outcome = "committed"
      /\ Known(j.prior) /\ AllSafe(j)
  BY DEF BundleInv, CallFits, AttemptFits
<1>4. CASE pc[p] = "done"
  <2>1. journal = Absent /\ AtOutput(j)
    BY <1>3, <1>4 DEF BundleInv, CallFits, JournalFits, OutcomeFits
  <2> QED BY <1>1, <1>2, <1>3, <2>1, TurnFits
<1>5. CASE pc[p] # "done"
  <2>1. Working(j) /\ journal # Absent
    BY <1>5, BundleAssumption DEF BundleInv, CallFits, JournalFits, Published, Installing, Holding,
       Working
  <2> QED BY <1>1, <1>2, <2>1, TurnFits
<1> QED BY <1>4, <1>5

LEMMA RecheckKeeps ==
    ASSUME BundleInv, NEW p \in Procs, RecheckPrior(p)
    PROVE  BundleInv'
<1>0. /\ UNCHANGED <<dest, evidence>> /\ faults' \in 0..MaxFaults
      /\ pc[p] = "recheck" /\ Alone(p) /\ pc[p] \in Published
      /\ UNCHANGED <<journal, stage, backup>> /\ call[p].then = "return"
  BY FaultsCount, InsideAlone
     DEF BundleInv, CallFits, JournalFits, Installing, RecheckPrior, Locked, Published, evidence
<1>1. CASE Handle(p)
  BY <1>0, <1>1, HandleKeeps
<1>2. CASE Goto(p, "replace") /\ UNCHANGED call
  <2>1. MovesTo(p, "replace", call[p])
    BY <1>2, CallsOnlyMove DEF BundleInv, Places, Locked
  <2>2. CallFits(p)'
    BY <1>0, <2>1 DEF BundleInv, MovesTo, CallStarted, CallFits, DraftFits, AttemptFits, JournalFits,
       OutcomeFits, Drafting, Published, Installing, Holding, Working, Known, HasForeign, AllSafe,
       Safe
  <2> QED BY <1>0, <2>1, <2>2, LookingKeeps
<1> QED BY <1>1, <1>2 DEF RecheckPrior

LEMMA VerifyKeeps ==
    ASSUME BundleInv, NEW p \in Procs, Verify(p)
    PROVE  BundleInv'
<1>0. /\ UNCHANGED <<dest, evidence>> /\ faults' \in 0..MaxFaults
      /\ pc[p] = "verify" /\ Alone(p) /\ pc[p] \in Published
      /\ UNCHANGED <<journal, stage, backup>> /\ call[p].then = "return"
  BY FaultsCount, InsideAlone
     DEF BundleInv, CallFits, JournalFits, Installing, Verify, Locked, Published, evidence
<1>1. CASE Handle(p)
  BY <1>0, <1>1, HandleKeeps
<1>2. CASE AllOutput(call[p].journal) /\ Goto(p, "temp") /\ UNCHANGED call
  <2>1. MovesTo(p, "temp", call[p])
    BY <1>2, CallsOnlyMove DEF BundleInv, Places, Locked
  <2>2. AtOutput(call[p].journal)' /\ call'[p].outcome = "committed"
    BY <1>0, <1>2, <2>1
       DEF AllOutput, AtOutput, IsOutput, MovesTo, BundleInv, CallFits, AttemptFits
  <2>3. CallFits(p)'
    BY <1>0, <2>1, <2>2 DEF BundleInv, MovesTo, CallStarted, CallFits, DraftFits, AttemptFits,
       JournalFits, OutcomeFits, Drafting, Published, Installing, Holding, Working, Known,
       HasForeign, AllSafe, Safe
  <2> QED BY <1>0, <2>1, <2>3, LookingKeeps
<1> QED BY <1>1, <1>2 DEF Verify

LEMMA ProveKeeps ==
    ASSUME BundleInv, NEW p \in Procs, Prove(p)
    PROVE  BundleInv'
<1>0. /\ UNCHANGED <<dest, evidence>> /\ faults' \in 0..MaxFaults
      /\ pc[p] = "prove" /\ Alone(p)
      /\ UNCHANGED <<journal, stage, backup>>
  BY FaultsCount, InsideAlone DEF BundleInv, Prove, Locked, evidence
<1>1. CASE Return(p)
  BY <1>0, <1>1, ReturningKeeps
<1>2. CASE AllPrior(call[p].journal) /\ Goto(p, "temp") /\ UNCHANGED call
  <2>1. MovesTo(p, "temp", call[p])
    BY <1>2, CallsOnlyMove DEF BundleInv, Places, Locked
  <2>2. AtPrior(call[p].journal)' /\ call'[p].outcome = "rolled_back"
    BY <1>0, <1>2, <2>1
       DEF AllPrior, AtPrior, IsPrior, MovesTo, BundleInv, CallFits, OutcomeFits
  <2>3. CallFits(p)'
    BY <1>0, <2>1, <2>2 DEF BundleInv, MovesTo, CallStarted, CallFits, DraftFits, AttemptFits,
       JournalFits, OutcomeFits, Drafting, Published, Installing, Holding, Working
  <2> QED BY <1>0, <2>1, <2>3, LookingKeeps
<1> QED BY <1>1, <1>2 DEF Prove

LEMMA FailKeeps ==
    ASSUME BundleInv, NEW p \in Procs, Fail(p)
    PROVE  BundleInv'
<1>0. UNCHANGED <<dest, evidence>> /\ faults' \in 0..MaxFaults /\ journal' = journal
  BY FaultsCount DEF BundleInv, Fail, evidence
<1>1. CASE pc[p] \in Published /\ call[p].then = "return" /\ Handle(p)
  BY <1>0, <1>1, HandleKeeps
<1>2. CASE pc[p] \in Unpublished /\ Goto(p, "abort") /\ UNCHANGED call
  <2>1. MovesTo(p, "abort", call[p]) /\ Alone(p)
    BY <1>2, CallsOnlyMove, InsideAlone DEF BundleInv, Places, Locked, Unpublished
  <2>2. CallFits(p)'
    BY <1>0, <1>2, <2>1 DEF BundleInv, MovesTo, CallStarted, CallFits, DraftFits, AttemptFits,
       JournalFits, OutcomeFits, Unpublished, Drafting, Published, Installing, Holding
  <2> QED BY <1>0, <2>1, <2>2, LookingKeeps
<1> QED BY <1>1, <1>2 DEF Fail

-----------------------------------------------------------------------------
(* Steps of a call before its journal.                                       *)

(* While there is no journal that can be read, only the destinations count.  *)
LEMMA UnjournaledFit ==
    ASSUME BundleInv, journal \in {Absent, Partial}, journal' \in {Absent, Partial},
           UNCHANGED dest
    PROVE  FilesFit'
BY DEF BundleInv, FilesFit, NeverMixedAtRest, UndoIsPossible, JournalIsKnown, Readable

(* The next item, or the next phase.                                         *)
LEMMA ItemTaken ==
    ASSUME TypeOK, NEW p \in Procs, NEW place \in Places, NextItem(p, place)
    PROVE  \E c \in CallType :
              /\ MovesTo(p, IF call[p].item = 1 THEN pc[p] ELSE place, c)
              /\ c.txn = call[p].txn /\ c.expected = call[p].expected
              /\ c.journal = call[p].journal /\ c.outcome = call[p].outcome
              /\ c.then = call[p].then
<1> DEFINE c == [call[p] EXCEPT !.item = 3 - call[p].item]
<1>0. call[p] \in CallType /\ call[p].item \in {1, 2}
  BY DEF TypeOK, CallType, Items
<1>1. /\ c \in CallType /\ c.txn = call[p].txn /\ c.expected = call[p].expected
      /\ c.journal = call[p].journal /\ c.outcome = call[p].outcome
      /\ c.then = call[p].then
  BY <1>0 DEF CallType, Items
<1>2. call' = [call EXCEPT ![p] = c]
  BY <1>0 DEF NextItem
<1>3. IF call[p].item = 1 THEN UNCHANGED pc ELSE pc' = [pc EXCEPT ![p] = place]
  BY DEF NextItem, Goto
<1> HIDE DEF c
<1>4. pc[p] \in Places
  BY DEF TypeOK, Places
<1>5. MovesTo(p, IF call[p].item = 1 THEN pc[p] ELSE place, c)
  BY <1>1, <1>2, <1>3, <1>4, GoesTo
<1> QED BY <1>1, <1>5

LEMMA StageKeeps ==
    ASSUME BundleInv, NEW p \in Procs, Stage(p)
    PROVE  BundleInv'
<1>0. /\ pc[p] = "stage" /\ Alone(p) /\ journal = Absent /\ journal' = journal
      /\ UNCHANGED <<dest, backup, receipts, journalTemp>> /\ faults' \in 0..MaxFaults
      /\ call[p].txn \in Txns /\ call[p].item \in Items
  BY InsideAlone, FaultsCount
     DEF BundleInv, CallFits, CallStarted, JournalFits, Drafting, Stage, Locked, TypeOK, CallType
<1>1. PICK c \in CallType :
              /\ MovesTo(p, IF call[p].item = 1 THEN pc[p] ELSE "backup", c)
              /\ c.txn = call[p].txn /\ c.expected = call[p].expected
              /\ c.journal = call[p].journal /\ c.outcome = call[p].outcome
              /\ c.then = call[p].then
              /\ call[p].item = 2 => c.item = 1
  <2>1. NextItem(p, "backup") /\ "backup" \in Places
    BY DEF Stage, Places, Locked
  <2>2. call[p].item = 2 => call'[p].item = 1
    BY DEF NextItem, Stage, BundleInv, TypeOK, CallType
  <2> QED BY <2>1, <2>2, ItemTaken DEF BundleInv, MovesTo
<1>2. PICK place \in {"stage", "backup"} : MovesTo(p, place, c) /\ (place = "backup" => c.item = 1)
  BY <1>0, <1>1 DEF Items
<1>3. stage' \in [Txns -> [Items -> Slot]]
  <2>1. Payload[txn(p)][call[p].item] \in Slot
    BY <1>0, PayloadsArePairs DEF Slot, txn
  <2> QED BY <1>0, <2>1 DEF Stage, txn, BundleInv, TypeOK
<1>4. FilesTyped' /\ FilesFit'
  BY <1>0, <1>3, UnjournaledFit DEF FilesTyped, BundleInv, TypeOK
<1>5. Seen(p)' = Seen(p)
  BY <1>0, <1>1, <1>2 DEF Seen, MovesTo
<1>6. CallFits(p)'
  BY <1>0, <1>1, <1>2, <1>5 DEF BundleInv, MovesTo, CallStarted, CallFits, DraftFits, AttemptFits,
     JournalFits, OutcomeFits, ReadSoFar, Drafting, Published, Installing, Holding, Known,
     HasForeign, Items
<1> QED BY <1>0, <1>2, <1>4, <1>6, StepKeeps

(* An item that is backed up is one more that has been read.                 *)
Backs(p) ==
    LET i == call[p].item
        t == call[p].txn
    IN  /\ ~(dest[i] # Absent /\ backup[t][i] # Absent)
        /\ backup' = [backup EXCEPT ![t][i] = IF dest[i] = Absent THEN @ ELSE dest[i]]
        /\ call' = [call EXCEPT ![p].journal.prior[i] = dest[i], ![p].item = 3 - i]
        /\ IF i = 1 THEN UNCHANGED pc ELSE Goto(p, "journal")

LEMMA BackupShape ==
    ASSUME BundleInv, NEW p \in Procs, Backup(p)
    PROVE  /\ pc[p] = "backup" /\ Alone(p) /\ journal = Absent /\ journal' = journal
           /\ UNCHANGED <<dest, stage, receipts, journalTemp>> /\ faults' \in 0..MaxFaults
           /\ call[p].txn \in Txns /\ call[p].item \in {1, 2} /\ call[p] \in CallType
           /\ call[p].expected \in Pair /\ call[p].journal \in Draft
           /\ call[p].journal.txn = call[p].txn /\ call[p].journal.state = "prepared"
           /\ call[p].outcome = "committed" /\ call[p].then = "return"
           /\ (Goto(p, "abort") /\ UNCHANGED <<backup, call>>) \/ Backs(p)
<1>1. (Goto(p, "abort") /\ UNCHANGED <<backup, call>>) \/ Backs(p)
  BY DEF Backup, Backs, txn
<1> QED BY <1>1, InsideAlone, FaultsCount
     DEF BundleInv, CallFits, CallStarted, DraftFits, JournalFits, Drafting, Backup, Locked, TypeOK,
         CallType, Items

LEMMA BackupReads ==
    ASSUME BundleInv, NEW p \in Procs, Backup(p), Backs(p)
    PROVE  \E j \in Draft, c \in CallType, place \in {"backup", "journal"} :
              /\ MovesTo(p, place, c) /\ (place = "journal" <=> call[p].item = 2)
              /\ c.txn = call[p].txn /\ c.expected = call[p].expected /\ c.journal = j
              /\ c.item = 3 - call[p].item /\ c.outcome = "committed" /\ c.then = "return"
              /\ j.txn = call[p].txn /\ j.state = "prepared"
              /\ j.prior[call[p].item] = dest[call[p].item]
              /\ \A k \in Items \ {call[p].item} : j.prior[k] = call[p].journal.prior[k]
<1> DEFINE i == call[p].item
<1> DEFINE t == call[p].txn
<1> DEFINE d == call[p].journal
<1>0. /\ pc[p] = "backup" /\ i \in {1, 2} /\ call[p] \in CallType
      /\ d \in Draft /\ d.txn = t /\ d.state = "prepared"
      /\ call[p].outcome = "committed" /\ call[p].then = "return"
  BY BackupShape
<1>1. dest[i] \in Contents \cup {Absent} /\ 3 - i \in Items
  BY <1>0 DEF BundleInv, TypeOK, Pair, Items
<1>2. PICK j \in Draft :
          /\ call' = [call EXCEPT ![p] = [call[p] EXCEPT !.journal = j, !.item = 3 - i]]
          /\ j.txn = t /\ j.state = "prepared"
          /\ j.prior[i] = dest[i] /\ \A k \in Items \ {i} : j.prior[k] = d.prior[k]
  <2> DEFINE e == [d EXCEPT !.prior[i] = dest[i]]
  <2>1. /\ e \in Draft /\ e.txn = t /\ e.state = "prepared"
        /\ e.prior[i] = dest[i] /\ \A k \in Items \ {i} : e.prior[k] = d.prior[k]
    BY <1>0, <1>1 DEF Draft, Items
  <2>2. call' = [call EXCEPT ![p] = [call[p] EXCEPT !.journal = e, !.item = 3 - i]]
    BY <1>0 DEF CallType, Draft, Backs
  <2> QED BY <2>1, <2>2
<1>3. PICK c \in CallType :
          /\ call' = [call EXCEPT ![p] = c]
          /\ c.txn = t /\ c.expected = call[p].expected /\ c.journal = j
          /\ c.item = 3 - i /\ c.outcome = "committed" /\ c.then = "return"
  <2> DEFINE e == [call[p] EXCEPT !.journal = j, !.item = 3 - i]
  <2>1. /\ e \in CallType /\ e.txn = t /\ e.expected = call[p].expected /\ e.journal = j
        /\ e.item = 3 - i /\ e.outcome = "committed" /\ e.then = "return"
    BY <1>0, <1>1 DEF CallType
  <2> QED BY <1>2, <2>1
<1>4. PICK place \in {"backup", "journal"} :
          MovesTo(p, place, c) /\ (place = "journal" <=> i = 2)
  <2>1. (IF i = 1 THEN "backup" ELSE "journal") \in Places
    BY DEF Places, Locked
  <2>2. MovesTo(p, IF i = 1 THEN "backup" ELSE "journal", c)
    BY <1>0, <1>3, <2>1, GoesTo DEF Goto, BundleInv, Backs
  <2> QED BY <1>0, <2>2
<1> QED BY <1>2, <1>3, <1>4

(* What has been read stands for what was seen.                              *)
LEMMA BackupSees ==
    ASSUME BundleInv, NEW p \in Procs, Backup(p), Backs(p)
    PROVE  Seen(p)' = Seen(p) /\ Known(Seen(p))
<1>0. pc[p] = "backup" /\ call[p].item \in {1, 2} /\ UNCHANGED dest
  BY BackupShape
<1>1. PICK j \in Draft, c \in CallType, place \in {"backup", "journal"} :
              /\ MovesTo(p, place, c) /\ c.journal = j
              /\ j.prior[call[p].item] = dest[call[p].item]
              /\ \A k \in Items \ {call[p].item} : j.prior[k] = call[p].journal.prior[k]
  BY BackupReads
<1>2. call[p].journal.prior[call[p].item] = Null
  BY <1>0 DEF BundleInv, CallFits, DraftFits, Drafting, ReadSoFar, Items
<1>3. \A k \in Items : (IF j.prior[k] = Null THEN dest[k] ELSE j.prior[k])
          = (IF call[p].journal.prior[k] = Null THEN dest[k] ELSE call[p].journal.prior[k])
  BY <1>0, <1>1, <1>2 DEF Items
<1>4. Seen(p)' = Seen(p)
  BY <1>0, <1>1, <1>3 DEF Seen, MovesTo
<1> QED BY <1>0, <1>4 DEF BundleInv, CallFits, DraftFits, Drafting

LEMMA BackupKeeps ==
    ASSUME BundleInv, NEW p \in Procs, Backup(p)
    PROVE  BundleInv'
<1> DEFINE i == call[p].item
<1> DEFINE t == call[p].txn
<1> DEFINE d == call[p].journal
<1>0. /\ pc[p] = "backup" /\ Alone(p) /\ journal = Absent /\ journal' = journal
      /\ UNCHANGED <<dest, stage, receipts, journalTemp>> /\ faults' \in 0..MaxFaults
      /\ t \in Txns /\ i \in {1, 2} /\ call[p] \in CallType
      /\ call[p].expected \in Pair
      /\ d \in Draft /\ d.txn = t /\ d.state = "prepared"
      /\ call[p].outcome = "committed" /\ call[p].then = "return"
      /\ (Goto(p, "abort") /\ UNCHANGED <<backup, call>>) \/ Backs(p)
  BY BackupShape
<1>1. CASE Goto(p, "abort") /\ UNCHANGED <<backup, call>>
  <2>1. MovesTo(p, "abort", call[p])
    BY <1>1, CallsOnlyMove DEF BundleInv, Places, Locked
  <2>2. FilesTyped' /\ FilesFit'
    BY <1>0, <1>1, UnjournaledFit DEF FilesTyped, BundleInv, TypeOK
  <2>3. CallFits(p)'
    BY <1>0, <2>1 DEF MovesTo, CallStarted, CallFits, DraftFits, AttemptFits,
       JournalFits, OutcomeFits, Drafting, Published, Installing, Holding
  <2> QED BY <1>0, <2>1, <2>2, <2>3, StepKeeps
<1>2. CASE Backs(p)
  <2>1. dest[i] \in Contents \cup {Absent}
    BY <1>0 DEF BundleInv, TypeOK, Pair, Items
  <2>2. PICK j \in Draft, c \in CallType, place \in {"backup", "journal"} :
              /\ MovesTo(p, place, c) /\ (place = "journal" <=> i = 2)
              /\ c.txn = t /\ c.expected = call[p].expected /\ c.journal = j
              /\ c.item = 3 - i /\ c.outcome = "committed" /\ c.then = "return"
              /\ j.txn = t /\ j.state = "prepared"
              /\ j.prior[i] = dest[i] /\ \A k \in Items \ {i} : j.prior[k] = d.prior[k]
    BY <1>2, BackupReads
  <2>3. Seen(p)' = Seen(p) /\ Known(Seen(p))
    BY <1>2, BackupSees
  <2>6. /\ backup' \in [Txns -> [Items -> Slot]]
        /\ dest[i] # Absent => backup'[t][i] = dest[i]
        /\ \A k \in Items \ {i} : backup'[t][k] = backup[t][k]
    <3>1. dest[i] \in Slot
      BY <2>1 DEF Slot
    <3> QED BY <1>0, <1>2, <3>1 DEF BundleInv, TypeOK, Items, Backs
  <2>7. FilesTyped' /\ FilesFit'
    BY <1>0, <2>6, UnjournaledFit DEF FilesTyped, BundleInv, TypeOK
  <2>8. /\ \A k \in Items : k < i => /\ d.prior[k] # Null
                                     /\ IsPrior(d, k) \/ Foreign(k)
                                     /\ Safe(d, k)
        /\ \A k \in Items : k >= i => d.prior[k] = Null
    BY <1>0 DEF BundleInv, CallFits, DraftFits, Drafting, ReadSoFar, Items
  <2>10. \A k \in Items : k <= i => /\ j.prior[k] # Null
                                    /\ (IsPrior(j, k) \/ Foreign(k))'
                                    /\ Safe(j, k)'
    <3>1. dest[i] # Null
      BY <2>1, BundleAssumption
    <3>2. CASE i = 1
      BY <1>0, <2>2, <2>6, <3>1, <3>2 DEF Items, IsPrior, Safe
    <3>3. CASE i = 2
      <4>1. \A k \in Items : k = 1 \/ k = 2
        BY DEF Items
      <4>2. j.prior[2] # Null /\ (IsPrior(j, 2) \/ Foreign(2))' /\ Safe(j, 2)'
        BY <1>0, <2>2, <2>6, <3>1, <3>3 DEF IsPrior, Safe
      <4>3. j.prior[1] # Null /\ (IsPrior(j, 1) \/ Foreign(1))' /\ Safe(j, 1)'
        BY <1>0, <2>2, <2>6, <2>8, <3>3 DEF IsPrior, Safe, Foreign, Items
      <4> QED BY <4>1, <4>2, <4>3
    <3> QED BY <1>0, <3>2, <3>3
  <2>11. \A k \in Items : k > i => j.prior[k] = Null
    BY <1>0, <2>2, <2>8 DEF Items
  <2>12. DraftFits(p)'
    <3>1. \A k \in Items : ReadSoFar(p, k)' <=> k <= i
      BY <1>0, <2>2 DEF ReadSoFar, MovesTo, Items
    <3> QED BY <1>0, <2>2, <2>3, <2>10, <2>11, <3>1
         DEF MovesTo, DraftFits, Drafting, Items, Known, HasForeign
  <2>13. CallFits(p)'
    BY <1>0, <2>2, <2>12 DEF MovesTo, CallStarted, CallFits, AttemptFits,
       JournalFits, OutcomeFits, Drafting, Published, Installing, Holding
  <2> QED BY <1>0, <2>2, <2>7, <2>13, StepKeeps
<1> QED BY <1>0, <1>1, <1>2

-----------------------------------------------------------------------------
(* Steps of a call with its journal.                                         *)

LEMMA SameFilesFit ==
    ASSUME BundleInv, UNCHANGED <<dest, backup, journal>>
    PROVE  FilesFit'
BY DEF BundleInv, FilesFit, NeverMixedAtRest, UndoIsPossible, JournalIsKnown, IsPrior, IsOutput,
       Readable, Known, HasForeign

(* What a step needs to know about a call that works from a journal.         *)
LEMMA AtWork ==
    ASSUME BundleInv, NEW p \in Procs, pc[p] \in Installing \cup Holding
    PROVE  /\ Alone(p) /\ Working(call[p].journal) /\ journal \notin {Absent, Partial}
           /\ call[p] \in CallType /\ call[p].txn \in Txns /\ call[p].expected \in Pair
           /\ call[p].journal.txn \in Txns /\ call[p].journal.prior \in Pair
           /\ Known(journal.prior)
<1>1. pc[p] \in Locked /\ pc[p] # "idle"
  BY DEF Installing, Holding, Locked
<1>2. Working(call[p].journal)
  BY DEF BundleInv, CallFits, JournalFits
<1>3. journal \notin {Absent, Partial}
  BY <1>2, BundleAssumption DEF Working
<1> QED BY <1>1, <1>2, <1>3, InsideAlone
     DEF BundleInv, TypeOK, CallFits, CallStarted, Working, Journal, FilesFit, JournalIsKnown,
         Readable

LEMMA PublishKeeps ==
    ASSUME BundleInv, NEW p \in Procs, PublishJournal(p)
    PROVE  BundleInv'
<1> DEFINE j == call[p].journal
<1>0. /\ pc[p] = "journal" /\ Alone(p)
      /\ UNCHANGED <<dest, stage, backup, receipts, journalTemp, call>> /\ faults' \in 0..MaxFaults
      /\ journal' = j
      /\ j \in Draft /\ j.txn = call[p].txn /\ j.state = "prepared"
      /\ call[p].outcome = "committed" /\ call[p].then = "return"
      /\ Known(Seen(p))
      /\ \A i \in Items : /\ j.prior[i] # Null
                          /\ IsPrior(j, i) \/ Foreign(i)
                          /\ Safe(j, i)
  BY InsideAlone, FaultsCount
     DEF BundleInv, CallFits, DraftFits, ReadSoFar, Drafting, PublishJournal, Locked
<1>1. j \in Journal /\ j.prior \in Pair /\ j \notin {Absent, Partial}
  BY <1>0, DraftDone, BundleAssumption DEF Journal
<1>2. MovesTo(p, "recheck", call[p])
  BY CallsOnlyMove DEF PublishJournal, BundleInv, Places, Locked
<1>3. Seen(p) = j.prior
  BY <1>0, <1>1 DEF Seen, Pair
<1>4. FilesTyped'
  BY <1>0, <1>1 DEF BundleInv, TypeOK, FilesTyped
<1>5. FilesFit'
  BY <1>0, <1>1, <1>3 DEF FilesFit, NeverMixedAtRest, UndoIsPossible, JournalIsKnown, IsPrior,
     IsOutput, Readable, Known, HasForeign, Foreign
<1>6. CallFits(p)'
  BY <1>0, <1>1, <1>2, <1>3 DEF BundleInv, MovesTo, CallStarted, CallFits, DraftFits, AttemptFits,
     JournalFits, OutcomeFits, Drafting, Published, Installing, Holding, Working, AllSafe, Safe,
     Known, HasForeign
<1> QED BY <1>0, <1>2, <1>4, <1>5, <1>6, StepKeeps

LEMMA ReplaceKeeps ==
    ASSUME BundleInv, NEW p \in Procs, Replace(p)
    PROVE  BundleInv'
<1> DEFINE j == call[p].journal
<1> DEFINE i == call[p].item
<1> DEFINE t == call[p].txn
<1>0. /\ pc[p] = "replace" /\ journal = j /\ j \in Journal /\ j.txn = t /\ j.state = "prepared"
      /\ UNCHANGED <<backup, journal, receipts, journalTemp>> /\ faults' \in 0..MaxFaults
      /\ t \in Txns /\ i \in Items
      /\ call[p].then = "return" /\ call[p].outcome = "committed"
      /\ Known(j.prior) /\ AllSafe(j)
  <2>1. pc[p] = "replace" /\ UNCHANGED <<backup, journal, receipts, journalTemp, faults>>
    BY DEF Replace
  <2>2. journal = j /\ call[p].then = "return"
    BY <2>1 DEF BundleInv, CallFits, JournalFits, Installing
  <2>3. /\ j \in Journal /\ j.txn = t /\ j.state = "prepared" /\ call[p].outcome = "committed"
        /\ Known(j.prior) /\ AllSafe(j)
    BY <2>1, <2>2 DEF BundleInv, CallFits, AttemptFits, Published
  <2> QED BY <2>1, <2>2, <2>3, AtWork, FaultsCount DEF Installing, CallType, BundleInv
<1>1. Alone(p) /\ journal \notin {Absent, Partial} /\ call[p].expected \in Pair
  BY <1>0, AtWork DEF Installing
<1>2. PICK c \in CallType :
              /\ MovesTo(p, IF i = 1 THEN pc[p] ELSE "verify", c)
              /\ c.txn = call[p].txn /\ c.expected = call[p].expected
              /\ c.journal = call[p].journal /\ c.outcome = call[p].outcome
              /\ c.then = call[p].then
  BY ItemTaken DEF Replace, Places, Locked, BundleInv
<1>3. PICK place \in {"replace", "verify"} : MovesTo(p, place, c)
  BY <1>0, <1>2
<1>4. /\ dest' \in Pair /\ stage' \in [Txns -> [Items -> Slot]]
      /\ dest'[i] \in {dest[i], Payload[t][i]}
      /\ \A k \in Items \ {i} : dest'[k] = dest[k]
  <2>1. Payload[t][i] \in Contents /\ Absent \in Slot
    BY <1>0, PayloadsArePairs DEF Slot
  <2>2. /\ dest \in Pair /\ dest \in [Items -> Contents \cup {Absent}]
        /\ stage \in [Txns -> [Items -> Slot]]
    BY DEF BundleInv, TypeOK, Pair
  <2>3. CASE UNCHANGED <<dest, stage>>
    BY <2>2, <2>3
  <2>4. CASE /\ dest' = [dest EXCEPT ![i] = Payload[t][i]]
             /\ stage' = [stage EXCEPT ![t][i] = Absent]
    <3>1. dest' \in Pair /\ dest'[i] = Payload[t][i] /\ \A k \in Items \ {i} : dest'[k] = dest[k]
      BY <1>0, <2>1, <2>2, <2>4 DEF Pair
    <3>2. stage' \in [Txns -> [Items -> Slot]]
      BY <1>0, <2>1, <2>2, <2>4
    <3> QED BY <3>1, <3>2
  <2> QED BY <2>3, <2>4 DEF Replace, txn
<1>5. FilesTyped'
  BY <1>0, <1>4 DEF BundleInv, TypeOK, FilesTyped
<1>6. FilesFit'
  <2>1. UndoIsPossible'
    BY <1>0, <1>1, <1>4 DEF BundleInv, FilesFit, UndoIsPossible, IsPrior, IsOutput, AllSafe, Safe
  <2> QED BY <1>0, <1>1, <2>1 DEF BundleInv, FilesFit, NeverMixedAtRest, JournalIsKnown, Readable,
       Known, HasForeign
<1>7. CallFits(p)'
  BY <1>0, <1>1, <1>2, <1>3 DEF MovesTo, CallStarted, CallFits, DraftFits, AttemptFits,
     JournalFits, OutcomeFits, Drafting, Published, Installing, Holding, Working, AllSafe, Safe,
     Known, HasForeign
<1> QED BY <1>1, <1>3, <1>5, <1>6, <1>7, StepKeeps

LEMMA TempKeeps ==
    ASSUME BundleInv, NEW p \in Procs, WriteTemp(p)
    PROVE  BundleInv'
<1>0. /\ pc[p] = "temp" /\ Alone(p) /\ UNCHANGED <<dest, stage, backup, journal, receipts>>
      /\ journalTemp' = TRUE /\ faults' \in 0..MaxFaults
  BY AtWork, FaultsCount DEF WriteTemp, Holding, BundleInv
<1>1. MovesTo(p, "mark", call[p])
  BY CallsOnlyMove DEF WriteTemp, BundleInv, Places, Locked
<1>2. FilesTyped' /\ FilesFit'
  BY <1>0, SameFilesFit DEF BundleInv, TypeOK, FilesTyped
<1>3. CallFits(p)'
  BY <1>0, <1>1 DEF BundleInv, MovesTo, CallStarted, CallFits, DraftFits, AttemptFits,
     JournalFits, OutcomeFits, Drafting, Published, Installing, Holding, Working, AllSafe, Safe,
     Known, HasForeign, AtOutput, AtPrior, IsOutput, IsPrior, Foreign
<1> QED BY <1>0, <1>1, <1>2, <1>3, StepKeeps

LEMMA MarkKeeps ==
    ASSUME BundleInv, NEW p \in Procs, MarkJournal(p)
    PROVE  BundleInv'
<1> DEFINE j == call[p].journal
<1>0. /\ pc[p] = "mark" /\ Alone(p) /\ UNCHANGED <<dest, stage, backup, receipts, call>>
      /\ journalTemp' = FALSE /\ faults' \in 0..MaxFaults
      /\ Working(j) /\ call[p].outcome \in {"committed", "rolled_back"}
      /\ Known(journal.prior)
  BY AtWork, FaultsCount DEF MarkJournal, Holding, BundleInv, CallType
<1>1. PICK place \in {"receipt", "clean"} :
          /\ MovesTo(p, place, call[p])
          /\ place = "receipt" <=> call[p].outcome = "committed"
  <2>1. PICK place \in {"receipt", "clean"} :
            Goto(p, place) /\ (place = "receipt" <=> call[p].outcome = "committed")
    BY DEF MarkJournal
  <2> QED BY <1>0, <2>1, CallsOnlyMove DEF BundleInv, Places, Locked
<1>2. /\ journal' \in Journal /\ journal'.txn = j.txn /\ journal'.prior = j.prior
      /\ journal'.state = call[p].outcome
  BY <1>0 DEF MarkJournal, Working, Journal
<1>3. journal' \notin {Absent, Partial}
  BY <1>2, BundleAssumption
<1>4. IF call[p].outcome = "committed" THEN AtOutput(j) ELSE AtPrior(j)
  BY <1>0 DEF BundleInv, CallFits, OutcomeFits
<1>5. FilesTyped'
  BY <1>0, <1>2 DEF BundleInv, TypeOK, FilesTyped
<1>6. FilesFit'
  <2>1. UndoIsPossible'
    BY <1>0, <1>2, <1>4 DEF UndoIsPossible, IsPrior, AtPrior, Foreign
  <2>2. Known(journal.prior)'
    BY <1>0, <1>2 DEF Known, HasForeign, Working
  <2> QED BY <1>3, <2>1, <2>2 DEF FilesFit, NeverMixedAtRest, JournalIsKnown
<1>7. Working(j)' /\ call'[p] = call[p]
  BY <1>0, <1>2 DEF Working
<1>8. CallStarted(p)' /\ DraftFits(p)' /\ JournalFits(p)'
  BY <1>0, <1>1, <1>2, <1>7 DEF BundleInv, MovesTo, CallStarted, CallFits, DraftFits,
     JournalFits, Drafting, Installing, Holding
<1>9. AttemptFits(p)' /\ OutcomeFits(p)'
  BY <1>0, <1>1, <1>4 DEF BundleInv, MovesTo, CallFits, AttemptFits, OutcomeFits, Published, Holding,
     AllSafe, Safe, Known, HasForeign, AtOutput, AtPrior, IsOutput, IsPrior, Foreign
<1> QED BY <1>0, <1>1, <1>5, <1>6, <1>8, <1>9, StepKeeps DEF CallFits

LEMMA ReceiptKeeps ==
    ASSUME BundleInv, NEW p \in Procs, WriteReceipt(p)
    PROVE  BundleInv'
<1> DEFINE j == call[p].journal
<1>0. /\ pc[p] = "receipt" /\ Alone(p) /\ UNCHANGED <<dest, stage, backup, journal, journalTemp>>
      /\ faults' \in 0..MaxFaults /\ Working(j)
  BY AtWork, FaultsCount DEF WriteReceipt, Holding, BundleInv
<1>1. CASE Return(p) /\ UNCHANGED receipts
  BY <1>0, <1>1, ReturningKeeps DEF evidence
<1>2. CASE /\ receipts' = [receipts EXCEPT ![j.txn] = [j EXCEPT !.state = "committed"]]
           /\ Goto(p, "clean") /\ UNCHANGED call
  <2>1. MovesTo(p, "clean", call[p])
    BY <1>2, CallsOnlyMove DEF BundleInv, Places, Locked
  <2>2. [j EXCEPT !.state = "committed"] \in Journal /\ j.txn \in Txns
    BY <1>0 DEF Working, Journal
  <2>3. FilesTyped' /\ FilesFit'
    BY <1>0, <1>2, <2>2, SameFilesFit DEF BundleInv, TypeOK, FilesTyped
  <2>4. CallFits(p)'
    BY <1>0, <2>1 DEF BundleInv, MovesTo, CallStarted, CallFits, DraftFits, AttemptFits,
       JournalFits, OutcomeFits, Drafting, Published, Installing, Holding, Working, AllSafe, Safe,
       Known, HasForeign, AtOutput, AtPrior, IsOutput, IsPrior, Foreign
  <2> QED BY <1>0, <2>1, <2>3, <2>4, StepKeeps
<1> QED BY <1>1, <1>2 DEF WriteReceipt

LEMMA CleanKeeps ==
    ASSUME BundleInv, NEW p \in Procs, Clean(p)
    PROVE  BundleInv'
<1> DEFINE j == call[p].journal
<1> DEFINE o == call[p].outcome
<1>0. /\ pc[p] = "clean" /\ Alone(p) /\ UNCHANGED <<dest, receipts>>
      /\ faults' \in 0..MaxFaults /\ Working(j) /\ journal \notin {Absent, Partial}
      /\ j.txn \in Txns /\ j.prior \in Pair /\ o \in {"committed", "rolled_back"}
      /\ Known(journal.prior) /\ dest \in Pair
  BY AtWork, FaultsCount DEF Clean, Holding, BundleInv, CallType, TypeOK
<1>1. /\ journal.state = o
      /\ IF o = "committed" THEN AtOutput(j) ELSE AtPrior(j)
      /\ o = "rolled_back" => call[p].then # "return"
  BY <1>0 DEF BundleInv, CallFits, JournalFits, OutcomeFits, Holding
<1>2. CASE \E i \in Items :
             /\ CleanBefore(j, i, o) /\ StageLeft(j.txn, i)
             /\ stage' = [stage EXCEPT ![j.txn][i] = Absent]
             /\ UNCHANGED <<backup, journal, journalTemp, pc, call>>
  <2>1. MovesTo(p, "clean", call[p])
    BY <1>0, <1>2 DEF MovesTo, OthersStay, BundleInv, TypeOK, Places
  <2>2. stage' \in [Txns -> [Items -> Slot]]
    BY <1>0, <1>2 DEF BundleInv, TypeOK, Slot
  <2>3. FilesTyped' /\ FilesFit'
    BY <1>0, <1>2, <2>2, SameFilesFit DEF BundleInv, TypeOK, FilesTyped
  <2>4. CallFits(p)'
    BY <1>0, <1>2, <2>1 DEF BundleInv, MovesTo, CallStarted, CallFits, DraftFits, AttemptFits,
       JournalFits, OutcomeFits, Drafting, Published, Installing, Holding, Working, AllSafe, Safe,
       Known, HasForeign, AtOutput, AtPrior, IsOutput, IsPrior, Foreign
  <2> QED BY <1>0, <2>1, <2>3, <2>4, StepKeeps
<1>3. CASE \E i \in Items :
             /\ CleanBefore(j, i, o) /\ ~StageLeft(j.txn, i) /\ BackupLeft(j, i, o)
             /\ backup' = [backup EXCEPT ![j.txn][i] = Absent]
             /\ UNCHANGED <<stage, journal, journalTemp, pc, call>>
  <2>0. o = "rolled_back" /\ UNCHANGED <<stage, journal, journalTemp, pc, call>>
    BY <1>3 DEF BackupLeft
  <2>1. MovesTo(p, "clean", call[p])
    BY <1>0, <2>0 DEF MovesTo, OthersStay, BundleInv, TypeOK, Places
  <2>2. backup' \in [Txns -> [Items -> Slot]]
    BY <1>0, <1>3 DEF BundleInv, TypeOK, Slot
  <2>3. FilesTyped'
    BY <1>0, <2>0, <2>2 DEF BundleInv, TypeOK, FilesTyped
  <2>4. FilesFit'
    <3>1. UndoIsPossible'
      BY <1>0, <1>1, <2>0 DEF UndoIsPossible, AtPrior, IsPrior, Foreign, Working
    <3> QED BY <1>0, <2>0, <3>1 DEF BundleInv, FilesFit, NeverMixedAtRest, JournalIsKnown, Readable,
         Known, HasForeign
  <2>5. CallFits(p)'
    BY <1>0, <1>1, <2>0, <2>1 DEF BundleInv, MovesTo, CallStarted, CallFits, DraftFits, AttemptFits,
       JournalFits, OutcomeFits, Drafting, Published, Installing, Holding, Working,
       Known, HasForeign, AtPrior, IsPrior, Foreign
  <2> QED BY <1>0, <2>1, <2>3, <2>4, <2>5, StepKeeps
<1>4. CASE /\ journal' = Absent /\ journalTemp' = FALSE /\ UNCHANGED <<stage, backup>>
           /\ IF call[p].then \in {"replay", "raise"} THEN Return(p)
              ELSE Goto(p, IF call[p].then = "return" THEN "done" ELSE call[p].then)
                   /\ UNCHANGED call
  <2>1. FilesTyped'
    BY <1>0, <1>4 DEF BundleInv, TypeOK, FilesTyped
  <2>2. Known(dest)
    <3>1. CASE o = "committed" /\ \A i \in Items : IsOutput(j, i)
      <4>1. dest = Payload[j.txn]
        BY <1>0, <3>1, PayloadsArePairs, PairsEqual DEF IsOutput
      <4> QED BY <1>0, <4>1 DEF Known, Whole
    <3>2. CASE o = "rolled_back" /\ \A i \in Items : IsPrior(j, i)
      <4>1. dest = j.prior
        BY <1>0, <3>2, PairsEqual DEF IsPrior
      <4> QED BY <1>0, <4>1 DEF Working
    <3>3. CASE \E i \in Items : Foreign(i)
      BY <3>3 DEF Known, HasForeign, Foreign
    <3> QED BY <1>0, <1>1, <3>1, <3>2, <3>3 DEF AtOutput, AtPrior
  <2>3. FilesFit'
    BY <1>0, <1>4, <2>2 DEF FilesFit, NeverMixedAtRest, UndoIsPossible, JournalIsKnown, Readable,
       Known, HasForeign
  <2>4. CASE Return(p)
    <3>1. MovesTo(p, "idle", NoCall) /\ "idle" \notin Locked
      BY <2>4, Returns DEF BundleInv, Locked
    <3>2. CallFits(p)'
      BY <3>1 DEF MovesTo, CallStarted, CallFits, DraftFits, AttemptFits, JournalFits,
         OutcomeFits, Locked, Drafting, Published, Installing, Holding
    <3> QED BY <1>0, <2>1, <2>3, <3>1, <3>2, StepKeeps
  <2>5. CASE ~Return(p)
    <3>0. call[p].then \in {"return", "scan", "replay", "raise", "unpublish"}
      BY DEF BundleInv, TypeOK, CallType
    <3>1. PICK place \in {"done", "scan", "unpublish"} :
              MovesTo(p, place, call[p]) /\ (place = "done" <=> call[p].then = "return")
      <4>1. PICK place \in {"done", "scan", "unpublish"} :
                /\ Goto(p, place) /\ UNCHANGED call
                /\ place = "done" <=> call[p].then = "return"
        BY <1>4, <2>5, <3>0
      <4> QED BY <4>1, CallsOnlyMove DEF BundleInv, Places, Locked
    <3>2. CallFits(p)'
      BY <1>0, <1>1, <1>4, <3>1 DEF BundleInv, MovesTo, CallStarted, CallFits, DraftFits, AttemptFits,
         JournalFits, OutcomeFits, Drafting, Published, Installing, Holding, AllSafe, Safe,
         Known, HasForeign, AtOutput, IsOutput, Foreign
    <3> QED BY <1>0, <2>1, <2>3, <3>1, <3>2, StepKeeps
  <2> QED BY <2>4, <2>5
<1> QED BY <1>2, <1>3, <1>4 DEF Clean

-----------------------------------------------------------------------------
(* The rollback, and the ways a call ends.                                   *)

(* What is left to restore.                                                  *)
LEMMA RestoreSet ==
    ASSUME TypeOK, NEW p \in Procs, NEW place \in Places, NEW left \in SUBSET Items,
           pc' = [pc EXCEPT ![p] = place] \/ (UNCHANGED pc /\ place = pc[p]),
           call' = [call EXCEPT ![p].restore = left]
    PROVE  \E c \in CallType :
              /\ MovesTo(p, place, c)
              /\ c.txn = call[p].txn /\ c.expected = call[p].expected
              /\ c.journal = call[p].journal /\ c.outcome = call[p].outcome
              /\ c.then = call[p].then /\ c.restore = left
<1> DEFINE c == [call[p] EXCEPT !.restore = left]
<1>1. /\ c \in CallType /\ c.txn = call[p].txn /\ c.expected = call[p].expected
      /\ c.journal = call[p].journal /\ c.outcome = call[p].outcome
      /\ c.then = call[p].then /\ c.restore = left
  BY DEF TypeOK, CallType
<1>2. call' = [call EXCEPT ![p] = c]
  OBVIOUS
<1> HIDE DEF c
<1>3. MovesTo(p, place, c)
  BY <1>1, <1>2, GoesTo
<1> QED BY <1>1, <1>3

LEMMA RollbackKeeps ==
    ASSUME BundleInv, NEW p \in Procs, Rollback(p)
    PROVE  BundleInv'
<1> DEFINE j == call[p].journal
<1>0. /\ pc[p] = "rollback" /\ Alone(p) /\ UNCHANGED <<dest, stage, backup, journalTemp, receipts>>
      /\ faults' \in 0..MaxFaults
      /\ call[p].txn \in Txns /\ call[p].expected \in Pair
      /\ call[p].outcome = "rolled_back" /\ call[p].then # "return"
      /\ IF journal = Absent
         THEN j \in Journal /\ j.state = "prepared" /\ AtOutput(j) /\ Known(j.prior) /\ AllSafe(j)
         ELSE Working(j)
  BY InsideAlone, FaultsCount
     DEF BundleInv, CallFits, CallStarted, JournalFits, OutcomeFits, Rollback, Locked
<1>1. CASE journal = Absent /\ journal' = j /\ UNCHANGED <<pc, call>>
  <2>1. MovesTo(p, "rollback", call[p])
    BY <1>0, <1>1 DEF MovesTo, OthersStay, BundleInv, TypeOK, Places
  <2>2. journal' \in Journal /\ journal' \notin {Absent, Partial}
    BY <1>0, <1>1, BundleAssumption
  <2>3. FilesTyped'
    BY <1>0, <2>2 DEF BundleInv, TypeOK, FilesTyped
  <2>4. FilesFit'
    <3>1. UndoIsPossible'
      BY <1>0, <1>1 DEF UndoIsPossible, AtOutput, IsOutput, IsPrior, Foreign, AllSafe, Safe
    <3> QED BY <1>0, <1>1, <2>2, <3>1 DEF FilesFit, NeverMixedAtRest, JournalIsKnown, Known, HasForeign
  <2>5. Working(j)' /\ call'[p] = call[p]
    BY <1>0, <1>1, <2>2 DEF Working
  <2>6. CallFits(p)'
    BY <1>0, <2>1, <2>2, <2>5 DEF BundleInv, MovesTo, CallStarted, CallFits, DraftFits, AttemptFits,
       JournalFits, OutcomeFits, Drafting, Published, Installing, Holding
  <2> QED BY <1>0, <2>1, <2>3, <2>4, <2>6, StepKeeps
<1>2. CASE Return(p) /\ UNCHANGED journal
  BY <1>0, <1>2, ReturningKeeps DEF evidence
<1>3. CASE /\ journal # Absent /\ UNCHANGED journal /\ Goto(p, "restore")
           /\ call' = [call EXCEPT ![p].restore = ToRestore(j)]
  <2>1. PICK c \in CallType :
              /\ MovesTo(p, "restore", c)
              /\ c.txn = call[p].txn /\ c.expected = call[p].expected
              /\ c.journal = call[p].journal /\ c.outcome = call[p].outcome
              /\ c.then = call[p].then
    <3>1. ToRestore(j) \in SUBSET Items /\ "restore" \in Places
      BY DEF ToRestore, Places, Locked
    <3> QED BY <1>3, <3>1, RestoreSet DEF Goto, BundleInv
  <2>2. CallFits(p)'
    BY <1>0, <1>3, <2>1 DEF MovesTo, CallStarted, CallFits, DraftFits, AttemptFits,
       JournalFits, OutcomeFits, Drafting, Published, Installing, Holding, Working
  <2> QED BY <1>0, <1>3, <2>1, <2>2, LookingKeeps DEF evidence
<1> QED BY <1>1, <1>2, <1>3 DEF Rollback

LEMMA RestoreKeeps ==
    ASSUME BundleInv, NEW p \in Procs, Restore(p)
    PROVE  BundleInv'
<1> DEFINE j == call[p].journal
<1>0. /\ pc[p] = "restore" /\ Alone(p) /\ UNCHANGED <<stage, journal, journalTemp, receipts>>
      /\ faults' \in 0..MaxFaults /\ Working(j) /\ journal \notin {Absent, Partial}
      /\ call[p].txn \in Txns /\ call[p].expected \in Pair
      /\ j.txn \in Txns /\ j.prior \in Pair /\ Known(journal.prior)
      /\ call[p].restore \subseteq Items
  BY AtWork, FaultsCount DEF Restore, Holding, BundleInv, CallType
<1>1. call[p].outcome = "rolled_back" /\ call[p].then # "return"
  BY <1>0 DEF BundleInv, CallFits, OutcomeFits, Holding
<1>2. CASE Goto(p, "prove") /\ UNCHANGED <<dest, backup, call>>
  <2>1. MovesTo(p, "prove", call[p])
    BY <1>2, CallsOnlyMove DEF BundleInv, Places, Locked
  <2>2. CallFits(p)'
    BY <1>0, <1>1, <1>2, <2>1 DEF MovesTo, CallStarted, CallFits, DraftFits, AttemptFits,
       JournalFits, OutcomeFits, Drafting, Published, Installing, Holding, Working
  <2> QED BY <1>0, <1>2, <2>1, <2>2, LookingKeeps DEF evidence
<1>3. ASSUME NEW i \in call[p].restore,
             dest' = [dest EXCEPT ![i] = j.prior[i]],
             backup' = [backup EXCEPT ![j.txn][i] = IF j.prior[i] = Absent THEN @ ELSE Absent],
             call' = [call EXCEPT ![p].restore = call[p].restore \ {i}],
             UNCHANGED pc
      PROVE  BundleInv'
  <2>1. PICK c \in CallType :
              /\ MovesTo(p, "restore", c)
              /\ c.txn = call[p].txn /\ c.expected = call[p].expected
              /\ c.journal = call[p].journal /\ c.outcome = call[p].outcome
              /\ c.then = call[p].then
    <3>1. (call[p].restore \ {i}) \in SUBSET Items /\ "restore" \in Places
      BY <1>0 DEF Places, Locked
    <3> QED BY <1>0, <1>3, <3>1, RestoreSet DEF BundleInv
  <2>2. /\ dest' \in Pair /\ i \in Items /\ dest'[i] = j.prior[i]
        /\ \A k \in Items \ {i} : dest'[k] = dest[k]
    BY <1>0, <1>3 DEF BundleInv, TypeOK, Pair
  <2>3. /\ backup' \in [Txns -> [Items -> Slot]]
        /\ \A k \in Items \ {i} : backup'[j.txn][k] = backup[j.txn][k]
    BY <1>0, <1>3 DEF BundleInv, TypeOK, Slot
  <2>4. FilesTyped'
    BY <1>0, <2>2, <2>3 DEF BundleInv, TypeOK, FilesTyped
  <2>5. FilesFit'
    <3>1. UndoIsPossible'
      BY <1>0, <2>2, <2>3
         DEF BundleInv, FilesFit, UndoIsPossible, IsPrior, IsOutput, Working
    <3> QED BY <1>0, <3>1 DEF FilesFit, NeverMixedAtRest, JournalIsKnown, Known, HasForeign
  <2>6. CallFits(p)'
    BY <1>0, <1>1, <2>1 DEF MovesTo, CallStarted, CallFits, DraftFits, AttemptFits,
       JournalFits, OutcomeFits, Drafting, Published, Installing, Holding, Working
  <2> QED BY <1>0, <2>1, <2>4, <2>5, <2>6, StepKeeps
<1> QED BY <1>2, <1>3 DEF Restore

(* A process that leaves the lock leaves no facts about its call behind.     *)
LEMMA LeavingKeeps ==
    ASSUME BundleInv, NEW p \in Procs, pc[p] \in Locked, Return(p), FilesTyped', FilesFit'
    PROVE  BundleInv'
<1>1. MovesTo(p, "idle", NoCall) /\ Alone(p)
  BY Returns, InsideAlone DEF BundleInv
<1>2. CallFits(p)'
  BY <1>1 DEF MovesTo, CallStarted, CallFits, DraftFits, AttemptFits, JournalFits,
     OutcomeFits, Drafting, Published, Installing, Holding
<1> QED BY <1>1, <1>2, StepKeeps

LEMMA UnpublishKeeps ==
    ASSUME BundleInv, NEW p \in Procs, Unpublish(p)
    PROVE  BundleInv'
<1>1. FilesTyped'
  BY DEF BundleInv, TypeOK, FilesTyped, Unpublish
<1>2. FilesFit'
  BY SameFilesFit DEF Unpublish
<1> QED BY <1>1, <1>2, LeavingKeeps DEF Unpublish, Locked

LEMMA AbortKeeps ==
    ASSUME BundleInv, NEW p \in Procs, Abort(p)
    PROVE  BundleInv'
<1>0. /\ pc[p] = "abort" /\ pc[p] \in Locked /\ Alone(p) /\ journal = Absent /\ journal' = Absent
      /\ UNCHANGED <<dest, journalTemp, receipts>> /\ faults' \in 0..MaxFaults
      /\ call[p].txn \in Txns
  BY InsideAlone, FaultsCount DEF BundleInv, CallFits, CallStarted, JournalFits, Abort, Locked
<1>1. FilesTyped'
  <2>1. Absent \in Slot
    BY DEF Slot
  <2>2. stage \in [Txns -> [Items -> Slot]] /\ backup \in [Txns -> [Items -> Slot]]
    BY DEF BundleInv, TypeOK
  <2>3. stage' \in [Txns -> [Items -> Slot]]
    <3>1. UNCHANGED stage \/ \E i \in Items : stage' = [stage EXCEPT ![call[p].txn][i] = Absent]
      BY DEF Abort, txn
    <3>2. ASSUME NEW i \in Items, stage' = [stage EXCEPT ![call[p].txn][i] = Absent]
          PROVE  stage' \in [Txns -> [Items -> Slot]]
      BY <1>0, <2>1, <2>2, <3>2
    <3> QED BY <2>2, <3>1, <3>2
  <2>4. backup' \in [Txns -> [Items -> Slot]]
    <3>1. UNCHANGED backup \/ \E i \in Items : backup' = [backup EXCEPT ![call[p].txn][i] = Absent]
      BY DEF Abort, txn
    <3>2. ASSUME NEW i \in Items, backup' = [backup EXCEPT ![call[p].txn][i] = Absent]
          PROVE  backup' \in [Txns -> [Items -> Slot]]
      BY <1>0, <2>1, <2>2, <3>2
    <3> QED BY <2>2, <3>1, <3>2
  <2> QED BY <1>0, <2>3, <2>4 DEF BundleInv, TypeOK, FilesTyped
<1>2. FilesFit'
  BY <1>0, UnjournaledFit
<1>3. CASE Return(p)
  BY <1>0, <1>1, <1>2, <1>3, LeavingKeeps
<1>4. CASE UNCHANGED <<pc, call>>
  <2>1. MovesTo(p, "abort", call[p])
    BY <1>0, <1>4 DEF MovesTo, OthersStay, BundleInv, TypeOK, Places
  <2>2. CallFits(p)'
    BY <1>0, <2>1 DEF BundleInv, MovesTo, CallStarted, CallFits, DraftFits, AttemptFits, JournalFits,
       OutcomeFits, Drafting, Published, Installing, Holding
  <2> QED BY <1>0, <1>1, <1>2, <2>1, <2>2, StepKeeps
<1> QED BY <1>3, <1>4 DEF Abort

LEMMA CrashWritingKeeps ==
    ASSUME BundleInv, NEW p \in Procs, CrashWriting(p)
    PROVE  BundleInv'
<1>0. /\ Return(p) /\ UNCHANGED <<dest, journalTemp>> /\ faults' \in 0..MaxFaults
      /\ Partial \in Slot /\ call[p].item \in Items
      /\ pc[p] # "idle" => call[p].txn \in Txns
  BY FaultsCount DEF BundleInv, CallFits, CallStarted, CrashWriting, Slot, TypeOK, CallType
<1>1. CASE /\ pc[p] = "stage"
           /\ stage' = [stage EXCEPT ![txn(p)][call[p].item] = Partial]
           /\ UNCHANGED <<backup, journal, receipts>>
  <2>1. stage' \in [Txns -> [Items -> Slot]]
    BY <1>0, <1>1 DEF BundleInv, TypeOK, txn
  <2>2. FilesTyped' /\ FilesFit'
    BY <1>0, <1>1, <2>1, SameFilesFit DEF BundleInv, TypeOK, FilesTyped
  <2> QED BY <1>0, <1>1, <2>2, LeavingKeeps DEF Locked
<1>2. CASE /\ pc[p] = "backup"
           /\ backup' = [backup EXCEPT ![txn(p)][call[p].item] = Partial]
           /\ UNCHANGED <<stage, journal, receipts>>
  <2>1. backup' \in [Txns -> [Items -> Slot]]
    BY <1>0, <1>2 DEF BundleInv, TypeOK, txn
  <2>2. journal = Absent
    BY <1>2 DEF BundleInv, CallFits, JournalFits, Drafting
  <2>3. FilesTyped' /\ FilesFit'
    BY <1>0, <1>2, <2>1, <2>2, UnjournaledFit DEF BundleInv, TypeOK, FilesTyped
  <2> QED BY <1>0, <1>2, <2>3, LeavingKeeps DEF Locked
<1>3. CASE /\ pc[p] = "journal" \/ (pc[p] = "rollback" /\ journal = Absent)
           /\ journal' = Partial
           /\ UNCHANGED <<stage, backup, receipts>>
  <2>1. journal = Absent
    BY <1>3 DEF BundleInv, CallFits, JournalFits, Drafting
  <2>2. FilesTyped' /\ FilesFit'
    BY <1>0, <1>3, <2>1, UnjournaledFit DEF BundleInv, TypeOK, FilesTyped
  <2> QED BY <1>0, <1>3, <2>2, LeavingKeeps DEF Locked
<1>4. CASE /\ pc[p] = "receipt"
           /\ receipts' = [receipts EXCEPT ![call[p].journal.txn] = Partial]
           /\ UNCHANGED <<stage, backup, journal>>
  <2>1. FilesTyped' /\ FilesFit'
    BY <1>0, <1>4, SameFilesFit DEF BundleInv, TypeOK, FilesTyped
  <2> QED BY <1>0, <1>4, <2>1, LeavingKeeps DEF Locked
<1> QED BY <1>1, <1>2, <1>3, <1>4 DEF CrashWriting, txn

-----------------------------------------------------------------------------
(* Other programs.                                                           *)

LEMMA OutsideKeeps ==
    ASSUME BundleInv, OutsideWrite
    PROVE  BundleInv'
<1>1. PICK i \in Items, x \in Outsiders : dest' = [dest EXCEPT ![i] = x]
  BY DEF OutsideWrite
<1>2. /\ UNCHANGED <<stage, backup, journal, journalTemp, receipts, pc, call>>
      /\ faults' \in 0..MaxFaults
  BY FaultsCount DEF OutsideWrite, evidence, BundleInv
<1>3. /\ dest' \in Pair /\ dest'[i] = x
      /\ \A k \in Items \ {i} : dest'[k] = dest[k]
  BY <1>1, BundleAssumption DEF BundleInv, TypeOK, Pair
<1>4. \A k \in Items : dest'[k] = dest[k] \/ dest'[k] \in Outsiders
  BY <1>3
<1>5. TypeOK' /\ OneInside'
  BY <1>2, <1>3 DEF BundleInv, TypeOK, OneInside
<1>6. FilesFit'
  <2>1. NeverMixedAtRest'
    BY <1>3 DEF NeverMixedAtRest
  <2>2. UndoIsPossible'
    BY <1>2, <1>4 DEF BundleInv, FilesFit, UndoIsPossible, IsPrior, IsOutput
  <2>3. JournalIsKnown'
    BY <1>2 DEF BundleInv, FilesFit, JournalIsKnown, Readable, Known, HasForeign
  <2> QED BY <2>1, <2>2, <2>3 DEF FilesFit
<1>7. ASSUME NEW p \in Procs
      PROVE  CallFits(p)'
  <2>0. CallFits(p) /\ pc'[p] = pc[p] /\ call'[p] = call[p]
    BY <1>2 DEF BundleInv
  <2>1. CallStarted(p)'
    BY <2>0 DEF CallFits, CallStarted
  <2>2. DraftFits(p)'
    <3>1. ASSUME Known(Seen(p)) PROVE Known(Seen(p))'
      <4>1. CASE Seen(p)' = Seen(p)
        BY <3>1, <4>1 DEF Known, HasForeign
      <4>2. CASE Seen(p)' # Seen(p)
        <5>1. PICK k \in Items : Seen(p)'[k] # Seen(p)[k]
          BY <2>0, <4>2 DEF Seen
        <5>2. Seen(p)'[k] \in Outsiders
          BY <1>4, <2>0, <5>1 DEF Seen
        <5> QED BY <5>2 DEF Known, HasForeign
      <4> QED BY <4>1, <4>2
    <3>2. \A k \in Items : ReadSoFar(p, k)' = ReadSoFar(p, k)
      BY <2>0 DEF ReadSoFar
    <3> QED BY <1>2, <1>4, <2>0, <3>1, <3>2 DEF CallFits, DraftFits, IsPrior, Foreign, Safe
  <2>3. AttemptFits(p)'
    BY <1>2, <2>0 DEF CallFits, AttemptFits, Known, HasForeign, AllSafe, Safe
  <2>4. JournalFits(p)'
    BY <1>2, <1>4, <2>0 DEF CallFits, JournalFits, Working, AtOutput, IsOutput, Foreign, Known,
       HasForeign, AllSafe, Safe
  <2>5. OutcomeFits(p)'
    BY <1>2, <1>4, <2>0
       DEF CallFits, OutcomeFits, AtOutput, AtPrior, IsOutput, IsPrior, Foreign
  <2> QED BY <2>1, <2>2, <2>3, <2>4, <2>5 DEF CallFits
<1> QED BY <1>5, <1>6, <1>7 DEF BundleInv

-----------------------------------------------------------------------------
(* The invariant holds.                                                      *)

LEMMA InitFits == Init => BundleInv
<1> SUFFICES ASSUME Init PROVE BundleInv
  OBVIOUS
<1>1. TypeOK
  <2>1. dest \in Pair /\ faults \in 0..MaxFaults
    BY BundleAssumption DEF Init
  <2>2. /\ stage \in [Txns -> [Items -> Slot]] /\ backup \in [Txns -> [Items -> Slot]]
        /\ receipts \in [Txns -> Journal \cup {Absent, Partial}]
    BY DEF Init, Slot
  <2>3. pc \in [Procs -> Locked \cup {"idle", "called"}] /\ call \in [Procs -> CallType]
    BY NoCallTyped DEF Init
  <2> QED BY <2>1, <2>2, <2>3 DEF Init, TypeOK
<1>2. OneInside /\ \A p \in Procs : pc[p] = "idle"
  BY DEF Init, OneInside, Locked
<1>3. FilesFit
  BY DEF Init, FilesFit, NeverMixedAtRest, UndoIsPossible, JournalIsKnown, Readable, Whole
<1>4. \A p \in Procs : CallFits(p)
  BY <1>2 DEF CallStarted, CallFits, DraftFits, AttemptFits, JournalFits,
     OutcomeFits, Drafting, Published, Installing, Holding
<1> QED BY <1>1, <1>2, <1>3, <1>4 DEF BundleInv

LEMMA NextKeeps == BundleInv /\ [Next]_vars => BundleInv'
<1> SUFFICES ASSUME BundleInv, [Next]_vars PROVE BundleInv'
  OBVIOUS
<1>1. CASE UNCHANGED vars
  <2>1. UNCHANGED <<dest, evidence, stage, backup, journal, journalTemp, receipts, pc, call, faults>>
    BY <1>1 DEF vars, evidence
  <2>2. TypeOK' /\ OneInside' /\ FilesFit'
    BY <2>1, SameFilesFit DEF BundleInv, TypeOK, OneInside
  <2>3. \A p \in Procs : CallFits(p)'
    BY <2>1, SameFits DEF BundleInv
  <2> QED BY <2>2, <2>3 DEF BundleInv
<1>2. ASSUME NEW p \in Procs, Refused(p) \/ Done(p) \/ Crash(p)
      PROVE  BundleInv'
  <2>1. Return(p) /\ UNCHANGED <<dest, evidence>> /\ faults' \in 0..MaxFaults
    BY <1>2, FaultsCount DEF Refused, Done, Crash, BundleInv
  <2> QED BY <2>1, ReturningKeeps
<1>3. ASSUME NEW p \in Procs, CommitStep(p) PROVE BundleInv'
  BY <1>2, <1>3, ScanKeeps, StageKeeps, BackupKeeps, PublishKeeps, RecheckKeeps, ReplaceKeeps,
     VerifyKeeps, TempKeeps, MarkKeeps, ReceiptKeeps, CleanKeeps DEF CommitStep
<1>4. ASSUME NEW p \in Procs, RecoveryStep(p) PROVE BundleInv'
  BY <1>4, RecoverKeeps, RollbackKeeps, RestoreKeeps, ProveKeeps, UnpublishKeeps, AbortKeeps
     DEF RecoveryStep
<1> QED BY <1>1, <1>2, <1>3, <1>4, RequestKeeps, EnterKeeps, FailKeeps, CrashWritingKeeps,
     OutsideKeeps DEF Next

(* The inductive invariant holds (atomic_replace_bundle).                    *)
THEOREM BundleInvariant == Spec => []BundleInv
BY InitFits, NextKeeps, PTL DEF Spec

(* Files and calls keep their types.                                         *)
THEOREM BundleTypeCorrect == Spec => []TypeOK
<1>1. BundleInv => TypeOK
  BY DEF BundleInv
<1> QED BY <1>1, BundleInvariant, PTL

(* Without a journal the two files are of one attempt, or another program    *)
(* wrote one of them.                                                        *)
THEOREM PairIsWhole == Spec => []NeverMixedAtRest
<1>1. BundleInv => NeverMixedAtRest
  BY DEF BundleInv, FilesFit
<1> QED BY <1>1, BundleInvariant, PTL

(* A journal of an attempt that is not committed always names bytes that are *)
(* there to be put back, wherever its process died.                          *)
THEOREM UndoStaysPossible == Spec => []UndoIsPossible
<1>1. BundleInv => UndoIsPossible
  BY DEF BundleInv, FilesFit
<1> QED BY <1>1, BundleInvariant, PTL

-----------------------------------------------------------------------------
(* What the caller of atomic_replace_bundle gets: it replaces the pair it  *)
(* saw, and what it committed can be answered again.                       *)
(*                                                                         *)
(* The invariant above knows nothing of what the pairs hold.               *)
(* These two guarantees rest on what the callers put into them, so each    *)
(* theorem names the hypotheses it needs:                                  *)
(*   - the provenance that youtube_clip_plan.py installs beside its        *)
(*     document holds the transaction id, a fresh UUID for each attempt:   *)
(*     two whole pairs with the same provenance are the same pair          *)
(*     (SidecarsTell), and no attempt installs what was there (Fresh);     *)
(*   - what other programs write is none of the bytes of an attempt        *)
(*     (ForeignIsForeign).                                                 *)

-----------------------------------------------------------------------------
(* No lost update: the invariant.                                            *)

(* A pair is the one the caller saw, or another program wrote half of it.    *)
SeenBy(c, u) == u = c.expected \/ HasForeign(u)

(* From the comparison under the lock on, through the recovery of an earlier *)
(* attempt and the reading of the destinations, to the replaces.             *)
CallerServed(p) ==
    LET c == call[p]
        j == call[p].journal
    IN  c.expected \in Whole =>
          /\ pc[p] \in {"recover", "scan"} => SeenBy(c, dest)
          /\ pc[p] \in Drafting => SeenBy(c, Seen(p))
          /\ pc[p] \in {"recheck", "replace"} => SeenBy(c, j.prior)
          /\ pc[p] \in {"rollback"} \cup Holding /\ c.then = "scan" =>
                IF c.outcome = "committed" THEN Payload[j.txn] = c.expected
                ELSE SeenBy(c, j.prior)
Served == \A p \in Procs : CallerServed(p)

-----------------------------------------------------------------------------
(* Steps and calls.                                                          *)

(* What a step of p leaves of its call.                                      *)
SameCall(p) ==
    /\ call'[p].txn = call[p].txn /\ call'[p].expected = call[p].expected
    /\ call'[p].journal = call[p].journal /\ call'[p].outcome = call[p].outcome
    /\ call'[p].then = call[p].then

LEMMA ReturnMoves ==
    ASSUME TypeOK, NEW p \in Procs, Return(p)
    PROVE  OthersStay(p) /\ pc'[p] = "idle" /\ call'[p] = NoCall
BY DEF TypeOK, Return, Goto, OthersStay

LEMMA GotoMoves ==
    ASSUME TypeOK, NEW p \in Procs, NEW place, Goto(p, place), UNCHANGED call
    PROVE  OthersStay(p) /\ pc'[p] = place /\ call'[p] = call[p]
BY DEF TypeOK, Goto, OthersStay

Turns(p, place, outcome, then) ==
    /\ Goto(p, place)
    /\ call' = [call EXCEPT ![p].outcome = outcome, ![p].then = then]

LEMMA TurnMoves ==
    ASSUME TypeOK, NEW p \in Procs, NEW place, NEW outcome, NEW then,
           Turns(p, place, outcome, then)
    PROVE  /\ OthersStay(p) /\ pc'[p] = place
           /\ call'[p].txn = call[p].txn /\ call'[p].expected = call[p].expected
           /\ call'[p].journal = call[p].journal
           /\ call'[p].outcome = outcome /\ call'[p].then = then
BY DEF TypeOK, Goto, OthersStay, CallType, Turns

LEMMA HandleMoves ==
    ASSUME TypeOK, NEW p \in Procs, Handle(p)
    PROVE  /\ OthersStay(p) /\ pc'[p] = "rollback"
           /\ call'[p].txn = call[p].txn /\ call'[p].expected = call[p].expected
           /\ call'[p].journal = call[p].journal /\ call'[p].outcome = "rolled_back"
           /\ call'[p].then = IF receipts[txn(p)] # Absent THEN "unpublish" ELSE "raise"
<1>1. Turns(p, "rollback", "rolled_back",
            IF receipts[txn(p)] # Absent THEN "unpublish" ELSE "raise")
  BY DEF Handle, Turns
<1> QED BY <1>1, TurnMoves

LEMMA ItemMoves ==
    ASSUME TypeOK, NEW p \in Procs, NEW place \in Places, NextItem(p, place)
    PROVE  /\ OthersStay(p) /\ SameCall(p)
           /\ pc'[p] = IF call[p].item = 1 THEN pc[p] ELSE place
BY ItemTaken DEF MovesTo, SameCall

-----------------------------------------------------------------------------
(* What a step has to show.                                                  *)

LEMMA ServedStep ==
    ASSUME BundleInv, Served, NEW p \in Procs, OthersStay(p),
           pc[p] \in Locked \/ UNCHANGED dest, CallerServed(p)'
    PROVE  Served'
<1>1. ASSUME NEW q \in Procs, q # p
      PROVE  CallerServed(q)'
  <2>1. pc'[q] = pc[q] /\ call'[q] = call[q] /\ CallerServed(q)
    BY <1>1 DEF OthersStay, Served
  <2>2. CASE pc[q] \in Locked
    <3>1. UNCHANGED dest
      BY <1>1, <2>2 DEF BundleInv, OneInside
    <3>2. Seen(q)' = Seen(q)
      BY <2>1, <3>1 DEF Seen
    <3> QED BY <2>1, <3>1, <3>2 DEF CallerServed, SeenBy, HasForeign
  <2>3. CASE pc[q] \notin Locked
    BY <2>1, <2>3 DEF CallerServed, Locked, Drafting, Holding
  <2> QED BY <2>2, <2>3
<1> QED BY <1>1 DEF Served

(* Where nothing is promised.                                                *)
LEMMA NothingPromised ==
    ASSUME NEW p \in Procs,
           \/ pc'[p] \in {"idle", "called", "verify", "done", "abort", "unpublish"}
           \/ pc'[p] \in {"rollback"} \cup Holding /\ call'[p].then # "scan"
    PROVE  CallerServed(p)'
BY DEF CallerServed, Drafting, Holding

(* Work under the lock on behalf of the same call.                           *)
LEMMA WorkServes ==
    ASSUME NEW p \in Procs, CallerServed(p), SameCall(p),
           pc[p] \in {"rollback"} \cup Holding, pc'[p] \in {"rollback"} \cup Holding
    PROVE  CallerServed(p)'
<1>1. pc'[p] \notin {"recover", "scan", "recheck", "replace"} \cup Drafting
  BY DEF Holding, Drafting
<1> QED BY <1>1 DEF CallerServed, SameCall, SeenBy, HasForeign

-----------------------------------------------------------------------------
(* The steps.                                                                *)

LEMMA RequestServes ==
    ASSUME BundleInv, Served, NEW p \in Procs, NEW t \in Txns, Request(p, t)
    PROVE  Served'
<1>1. OthersStay(p) /\ pc'[p] = "called" /\ UNCHANGED dest
  BY DEF BundleInv, TypeOK, Request, Goto, OthersStay
<1> QED BY <1>1, NothingPromised, ServedStep

LEMMA ReturnServes ==
    ASSUME BundleInv, Served, NEW p \in Procs, Return(p), pc[p] \in Locked \/ UNCHANGED dest
    PROVE  Served'
<1>1. OthersStay(p) /\ pc'[p] = "idle"
  BY ReturnMoves DEF BundleInv
<1> QED BY <1>1, NothingPromised, ServedStep

(* The snapshot is compared under the lock.                                  *)
LEMMA EnterServes ==
    ASSUME BundleInv, Served, NEW p \in Procs, Enter(p)
    PROVE  Served'
<1>1. UNCHANGED dest
  BY DEF Enter
<1>2. CASE Return(p)
  BY <1>1, <1>2, ReturnServes
<1>3. CASE ~Return(p)
  <2>1. /\ OthersStay(p) /\ pc'[p] \in {"scan", "recover"} /\ call'[p].expected = dest
    BY <1>3 DEF Enter, BundleInv, TypeOK, CallType, Goto, OthersStay
  <2>2. CallerServed(p)'
    BY <1>1, <2>1 DEF CallerServed, SeenBy, Drafting, Holding
  <2> QED BY <1>1, <2>1, <2>2, ServedStep
<1> QED BY <1>2, <1>3

(* A pair the caller saw whole is all there or all undone: the journal of an *)
(* earlier attempt cannot mix it, because the sidecars tell the pairs apart. *)
LEMMA RecoverServes ==
    ASSUME BundleInv, Served, NEW p \in Procs, Recover(p), SidecarsTell, ForeignIsForeign
    PROVE  Served'
<1> DEFINE j == call[p].journal
<1>0. /\ UNCHANGED dest /\ pc[p] = "recover" /\ CallerServed(p)
      /\ j \in Journal /\ Known(j.prior) /\ j.txn \in Txns /\ j.prior \in Pair /\ dest \in Pair
  <2>1. pc[p] = "recover" /\ UNCHANGED dest
    BY DEF Recover
  <2>2. j = journal /\ Working(j)
    BY <2>1 DEF BundleInv, CallFits, JournalFits
  <2>3. journal \in Journal /\ Readable
    BY <2>2, BundleAssumption DEF Working, Readable
  <2> QED BY <2>1, <2>2, <2>3 DEF BundleInv, FilesFit, JournalIsKnown, Served, Journal, TypeOK
<1>1. CASE Return(p)
  BY <1>0, <1>1, ReturnServes
<1>2. CASE /\ AllOutput(j) /\ ~Return(p)
           /\ \E place \in {"temp", "receipt"}, then \in {"replay", "scan"} :
                 Turns(p, place, "committed", then)
  <2>1. /\ OthersStay(p) /\ pc'[p] \in {"temp", "receipt"}
        /\ call'[p].expected = call[p].expected /\ call'[p].journal = j
        /\ call'[p].outcome = "committed"
    BY <1>2, TurnMoves DEF BundleInv
  <2>2. dest = Payload[j.txn] /\ Payload[j.txn] \in Whole
    BY <1>0, <1>2, PayloadsArePairs, PairsEqual DEF AllOutput, IsOutput, Whole
  <2>3. call[p].expected \in Whole => Payload[j.txn] = call[p].expected
    BY <1>0, <2>2, ForeignIsForeign DEF CallerServed, SeenBy, HasForeign, ForeignIsForeign
  <2>4. CallerServed(p)'
    BY <2>1, <2>3 DEF CallerServed, Drafting, Holding
  <2> QED BY <1>0, <2>1, <2>4, ServedStep
<1>3. CASE /\ ~Unknown(j) /\ (j.state = "rolled_back" => AllPrior(j))
           /\ j.state # "rolled_back" => ~AllOutput(j)
           /\ Turns(p, "rollback", "rolled_back", "scan")
  <2>1. /\ OthersStay(p) /\ pc'[p] = "rollback"
        /\ call'[p].expected = call[p].expected /\ call'[p].journal = j
        /\ call'[p].outcome = "rolled_back"
    BY <1>3, TurnMoves DEF BundleInv
  <2>2. ASSUME call[p].expected \in Whole
        PROVE  SeenBy(call[p], j.prior)
    <3>1. SeenBy(call[p], dest)
      BY <1>0, <2>2 DEF CallerServed
    <3>2. CASE HasForeign(dest)
      <4>1. PICK i \in Items : dest[i] \in Outsiders
        BY <3>2 DEF HasForeign
      <4>2. dest[i] # Payload[j.txn][i]
        BY <1>0, <4>1, ForeignIsForeign DEF ForeignIsForeign, Whole
      <4>3. dest[i] = j.prior[i]
        BY <1>3, <4>2 DEF Unknown, IsOutput, IsPrior
      <4> QED BY <4>1, <4>3 DEF SeenBy, HasForeign
    <3>3. CASE HasForeign(j.prior)
      BY <3>3 DEF SeenBy
    <3>4. CASE dest = call[p].expected /\ AllPrior(j)
      <4>1. dest = j.prior
        BY <1>0, <3>4, PairsEqual DEF AllPrior, IsPrior
      <4> QED BY <3>4, <4>1 DEF SeenBy
    <3>5. CASE dest = call[p].expected /\ j.prior \in Whole /\ ~AllOutput(j)
      <4>1. dest[2] = Payload[j.txn][2] \/ dest[2] = j.prior[2]
        BY <1>3 DEF Unknown, IsOutput, IsPrior, Items
      <4>2. Payload[j.txn] \in Whole /\ dest \in Whole
        BY <1>0, <2>2, <3>5 DEF Whole
      <4>3. dest # Payload[j.txn]
        BY <3>5 DEF AllOutput, IsOutput
      <4>4. dest = j.prior
        BY <3>5, <4>1, <4>2, <4>3, SidecarsTell DEF SidecarsTell
      <4> QED BY <3>5, <4>4 DEF SeenBy
    <3> QED BY <1>0, <1>3, <3>1, <3>2, <3>3, <3>4, <3>5 DEF SeenBy, Known
  <2>3. CallerServed(p)'
    BY <2>1, <2>2 DEF CallerServed, Drafting, Holding, SeenBy, HasForeign
  <2> QED BY <1>0, <2>1, <2>3, ServedStep
<1>4. CASE Turns(p, "rollback", "rolled_back", "raise")
  <2>1. OthersStay(p) /\ pc'[p] = "rollback" /\ call'[p].then = "raise"
    BY <1>4, TurnMoves DEF BundleInv
  <2> QED BY <1>0, <2>1, NothingPromised, ServedStep
<1> QED BY <1>1, <1>2, <1>3, <1>4 DEF Recover, Turns

(* Until the journal is written, what the call is going to replace is what   *)
(* it saw: what it has read, and what is there to be read.                   *)
LEMMA DraftServes ==
    ASSUME BundleInv, Served, NEW p \in Procs,
           Scan(p) \/ Stage(p) \/ Backup(p) \/ PublishJournal(p)
    PROVE  Served'
<1>0. UNCHANGED dest /\ CallerServed(p) /\ pc[p] \in Locked /\ dest \in Pair
  BY DEF Scan, Stage, Backup, PublishJournal, Served, Locked, BundleInv, TypeOK
<1>1. CASE Return(p)
  BY <1>0, <1>1, ReturnServes
<1>2. CASE Scan(p) /\ ~Return(p)
  <2> DEFINE e == [txn |-> txn(p), state |-> "prepared", prior |-> [i \in Items |-> Null]]
  <2>1. /\ OthersStay(p) /\ pc[p] = "scan" /\ pc'[p] = "stage"
        /\ call'[p] = [NoCall EXCEPT !.txn = txn(p), !.expected = call[p].expected, !.journal = e]
    BY <1>2 DEF Scan, BundleInv, TypeOK, Goto, OthersStay
  <2> HIDE DEF e
  <2>2. call'[p].expected = call[p].expected /\ call'[p].journal = e
    BY <2>1 DEF NoCall
  <2>3. Seen(p)' = dest
    BY <1>0, <2>2 DEF Seen, e, Pair
  <2>4. CallerServed(p)'
    BY <1>0, <2>1, <2>2, <2>3 DEF CallerServed, SeenBy, HasForeign, Drafting, Holding
  <2> QED BY <1>0, <2>1, <2>4, ServedStep
<1>3. CASE Stage(p)
  <2>1. OthersStay(p) /\ SameCall(p) /\ pc[p] = "stage" /\ pc'[p] \in {"stage", "backup"}
    BY <1>3, ItemMoves DEF Stage, BundleInv, Places, Locked
  <2>2. Seen(p)' = Seen(p)
    BY <1>0, <2>1 DEF Seen, SameCall
  <2>3. CallerServed(p)'
    BY <1>0, <2>1, <2>2 DEF CallerServed, SameCall, SeenBy, HasForeign, Drafting, Holding
  <2> QED BY <1>0, <2>1, <2>3, ServedStep
<1>4. CASE Backup(p) /\ Backs(p)
  <2>1. /\ OthersStay(p) /\ pc[p] = "backup" /\ pc'[p] \in {"backup", "journal"}
        /\ call'[p].expected = call[p].expected
    BY <1>4, BackupReads, BackupShape DEF MovesTo
  <2>2. Seen(p)' = Seen(p)
    BY <1>4, BackupSees
  <2>3. CallerServed(p)'
    BY <1>0, <2>1, <2>2 DEF CallerServed, SeenBy, HasForeign, Drafting, Holding
  <2> QED BY <1>0, <2>1, <2>3, ServedStep
<1>5. CASE Backup(p) /\ Goto(p, "abort") /\ UNCHANGED call
  <2>1. OthersStay(p) /\ pc'[p] = "abort"
    BY <1>5, GotoMoves DEF BundleInv
  <2> QED BY <1>0, <2>1, NothingPromised, ServedStep
<1>6. CASE PublishJournal(p)
  <2>1. OthersStay(p) /\ pc[p] = "journal" /\ pc'[p] = "recheck" /\ call'[p] = call[p]
    BY <1>6, GotoMoves DEF PublishJournal, BundleInv
  <2>2. call[p].journal \in Draft /\ \A i \in Items : call[p].journal.prior[i] # Null
    BY <2>1 DEF BundleInv, CallFits, DraftFits, ReadSoFar, Drafting
  <2>3. Seen(p) = call[p].journal.prior
    BY <2>2, DraftDone DEF Seen, Journal, Pair
  <2>4. CallerServed(p)'
    BY <1>0, <2>1, <2>3 DEF CallerServed, SeenBy, HasForeign, Drafting, Holding
  <2> QED BY <1>0, <2>1, <2>4, ServedStep
<1> QED BY <1>1, <1>2, <1>3, <1>4, <1>5, <1>6, BackupShape

(* The attempt itself, and its failures.                                     *)
LEMMA AttemptServes ==
    ASSUME BundleInv, Served, NEW p \in Procs,
           RecheckPrior(p) \/ Replace(p) \/ Verify(p) \/ Fail(p)
    PROVE  Served'
<1>0. CallerServed(p) /\ pc[p] \in Locked
  BY DEF RecheckPrior, Replace, Verify, Fail, Served, Locked, Published, Unpublished
<1>1. CASE Handle(p)
  <2>1. OthersStay(p) /\ pc'[p] = "rollback" /\ call'[p].then # "scan"
    BY <1>1, HandleMoves DEF BundleInv
  <2> QED BY <1>0, <2>1, NothingPromised, ServedStep
<1>2. CASE \E place \in {"temp", "abort"} :
              Goto(p, place) /\ UNCHANGED call /\ (place = "temp" => Verify(p))
  <2>1. OthersStay(p) /\ pc'[p] \in {"temp", "abort"} /\ call'[p] = call[p]
        /\ (pc'[p] = "temp" => Verify(p))
    BY <1>2, GotoMoves DEF BundleInv
  <2>2. Verify(p) => call[p].then # "scan"
    BY DEF Verify, BundleInv, CallFits, JournalFits, Installing
  <2>3. CallerServed(p)'
    BY <2>1, <2>2, NothingPromised DEF Holding
  <2> QED BY <1>0, <2>1, <2>3, ServedStep
<1>3. CASE RecheckPrior(p) /\ Goto(p, "replace") /\ UNCHANGED call
  <2>1. OthersStay(p) /\ pc[p] = "recheck" /\ pc'[p] = "replace" /\ call'[p] = call[p]
    BY <1>3, GotoMoves DEF RecheckPrior, BundleInv
  <2>2. CallerServed(p)'
    BY <1>0, <2>1 DEF CallerServed, SeenBy, HasForeign, Drafting, Holding
  <2> QED BY <1>0, <2>1, <2>2, ServedStep
<1>4. CASE Replace(p)
  <2>1. OthersStay(p) /\ SameCall(p) /\ pc[p] = "replace" /\ pc'[p] \in {"replace", "verify"}
    BY <1>4, ItemMoves DEF Replace, BundleInv, Places, Locked
  <2>2. CallerServed(p)'
    BY <1>0, <2>1 DEF CallerServed, SameCall, SeenBy, HasForeign, Drafting, Holding
  <2> QED BY <1>0, <2>1, <2>2, ServedStep
<1> QED BY <1>1, <1>2, <1>3, <1>4 DEF RecheckPrior, Verify, Fail

(* The end of an attempt or of a recovery, up to the last removal.           *)
LEMMA EndServes ==
    ASSUME BundleInv, Served, NEW p \in Procs,
           \/ WriteTemp(p) \/ MarkJournal(p) \/ WriteReceipt(p)
           \/ Rollback(p) \/ Restore(p) \/ Prove(p)
    PROVE  Served'
<1>0. CallerServed(p) /\ pc[p] \in Locked /\ pc[p] \in {"rollback"} \cup Holding
  BY DEF WriteTemp, MarkJournal, WriteReceipt, Rollback, Restore, Prove, Served, Locked, Holding
<1>1. CASE Return(p)
  BY <1>0, <1>1, ReturnServes
<1>2. CASE OthersStay(p) /\ SameCall(p) /\ pc'[p] \in {"rollback"} \cup Holding
  BY <1>0, <1>2, WorkServes, ServedStep
<1>3. CASE \E place \in Holding : Goto(p, place) /\ UNCHANGED call
  BY <1>2, <1>3, GotoMoves DEF BundleInv, SameCall
<1>4. CASE UNCHANGED <<pc, call>>
  BY <1>0, <1>2, <1>4 DEF OthersStay, SameCall
<1>5. CASE /\ Goto(p, "restore") \/ (UNCHANGED pc /\ pc[p] = "restore")
           /\ \E left \in SUBSET Items : call' = [call EXCEPT ![p].restore = left]
  BY <1>2, <1>5 DEF Goto, OthersStay, SameCall, BundleInv, TypeOK, CallType, Holding
<1>6. CASE WriteTemp(p) \/ MarkJournal(p) \/ WriteReceipt(p) \/ Prove(p)
  BY <1>1, <1>3, <1>6 DEF WriteTemp, MarkJournal, WriteReceipt, Prove, Holding
<1>7. CASE Rollback(p)
  <2>1. ToRestore(call[p].journal) \in SUBSET Items
    BY DEF ToRestore
  <2> QED BY <1>1, <1>4, <1>5, <1>7, <2>1 DEF Rollback
<1>8. CASE Restore(p)
  <2>1. call[p].restore \subseteq Items
    BY DEF BundleInv, TypeOK, CallType
  <2>2. \A i \in Items : (call[p].restore \ {i}) \in SUBSET Items
    BY <2>1
  <2>3. CASE Goto(p, "prove") /\ UNCHANGED call
    BY <1>3, <2>3 DEF Holding
  <2>4. CASE pc[p] = "restore" /\ UNCHANGED pc
             /\ \E i \in Items : call' = [call EXCEPT ![p].restore = call[p].restore \ {i}]
    BY <1>5, <2>2, <2>4
  <2> QED BY <1>8, <2>1, <2>3, <2>4 DEF Restore
<1> QED BY <1>6, <1>7, <1>8

(* What a recovery leaves to the scan is what the caller saw.                *)
LEMMA CleanServes ==
    ASSUME BundleInv, Served, NEW p \in Procs, Clean(p)
    PROVE  Served'
<1> DEFINE j == call[p].journal
<1>0. /\ pc[p] = "clean" /\ CallerServed(p) /\ pc[p] \in Locked /\ UNCHANGED dest
      /\ j.txn \in Txns /\ j.prior \in Pair /\ dest \in Pair
      /\ call[p].outcome \in {"committed", "rolled_back"}
      /\ IF call[p].outcome = "committed" THEN AtOutput(j) ELSE AtPrior(j)
  BY AtWork DEF Clean, Served, Locked, Holding, BundleInv, TypeOK, CallType, CallFits, OutcomeFits
<1>1. CASE Return(p)
  BY <1>0, <1>1, ReturnServes
<1>2. CASE UNCHANGED <<pc, call>>
  <2>1. OthersStay(p) /\ SameCall(p) /\ pc'[p] \in {"rollback"} \cup Holding
    BY <1>0, <1>2 DEF OthersStay, SameCall, Holding
  <2> QED BY <1>0, <2>1, WorkServes, ServedStep DEF Holding
<1>3. CASE /\ call[p].then # "scan" /\ UNCHANGED call
           /\ \E place \in {"done", "unpublish"} : Goto(p, place)
  <2>1. OthersStay(p) /\ pc'[p] \in {"done", "unpublish"}
    BY <1>3, GotoMoves DEF BundleInv
  <2> QED BY <1>0, <2>1, NothingPromised, ServedStep
<1>4. CASE call[p].then = "scan" /\ UNCHANGED call /\ Goto(p, "scan")
  <2>1. OthersStay(p) /\ pc'[p] = "scan" /\ call'[p] = call[p]
    BY <1>4, GotoMoves DEF BundleInv
  <2>2. ASSUME call[p].expected \in Whole
        PROVE  SeenBy(call[p], dest)
    <3>1. IF call[p].outcome = "committed" THEN Payload[j.txn] = call[p].expected
          ELSE SeenBy(call[p], j.prior)
      BY <1>0, <1>4, <2>2 DEF CallerServed, Holding
    <3>2. CASE HasForeign(dest)
      BY <3>2 DEF SeenBy
    <3>3. CASE ~HasForeign(dest) /\ call[p].outcome = "committed"
      <4>1. dest = Payload[j.txn]
        BY <1>0, <3>3, PayloadsArePairs, PairsEqual DEF AtOutput, IsOutput, Foreign, HasForeign
      <4> QED BY <3>1, <3>3, <4>1 DEF SeenBy
    <3>4. CASE ~HasForeign(dest) /\ call[p].outcome # "committed"
      <4>1. dest = j.prior
        BY <1>0, <3>4, PairsEqual DEF AtPrior, IsPrior, Foreign, HasForeign
      <4> QED BY <3>1, <3>4, <4>1
    <3> QED BY <3>2, <3>3, <3>4
  <2>3. CallerServed(p)'
    BY <1>0, <2>1, <2>2 DEF CallerServed, SeenBy, HasForeign, Drafting, Holding
  <2> QED BY <1>0, <2>1, <2>3, ServedStep
<1>5. call[p].then \in {"return", "scan", "replay", "raise", "unpublish"}
  BY DEF BundleInv, TypeOK, CallType
<1> QED BY <1>1, <1>2, <1>3, <1>4, <1>5 DEF Clean

LEMMA LeaveServes ==
    ASSUME BundleInv, Served, NEW p \in Procs,
           Refused(p) \/ Done(p) \/ Crash(p) \/ CrashWriting(p) \/ Unpublish(p) \/ Abort(p)
    PROVE  Served'
<1>0. UNCHANGED dest
  BY DEF Refused, Done, Crash, CrashWriting, Unpublish, Abort
<1>1. CASE Return(p)
  BY <1>0, <1>1, ReturnServes
<1>2. CASE Abort(p) /\ UNCHANGED <<pc, call>>
  <2>1. OthersStay(p) /\ pc'[p] = "abort"
    BY <1>2 DEF Abort, OthersStay
  <2> QED BY <1>0, <2>1, NothingPromised, ServedStep
<1> QED BY <1>1, <1>2 DEF Refused, Done, Crash, CrashWriting, Unpublish, Abort

(* A foreign half is the exception everywhere.                               *)
LEMMA OutsideServes ==
    ASSUME BundleInv, Served, OutsideWrite
    PROVE  Served'
<1>1. PICK i \in Items, x \in Outsiders : dest' = [dest EXCEPT ![i] = x]
  BY DEF OutsideWrite
<1>2. /\ UNCHANGED <<pc, call>> /\ dest'[i] \in Outsiders
      /\ \A k \in Items : dest'[k] = dest[k] \/ dest'[k] \in Outsiders
  BY <1>1 DEF OutsideWrite, BundleInv, TypeOK, Pair
<1>3. ASSUME NEW q \in Procs
      PROVE  CallerServed(q)'
  <2>1. CallerServed(q) /\ pc'[q] = pc[q] /\ call'[q] = call[q] /\ HasForeign(dest')
    BY <1>2 DEF Served, HasForeign
  <2>2. Seen(q)' = Seen(q) \/ HasForeign(Seen(q)')
    <3>1. CASE Seen(q)' # Seen(q)
      <4>1. PICK k \in Items : Seen(q)'[k] # Seen(q)[k]
        BY <2>1, <3>1 DEF Seen
      <4>2. Seen(q)'[k] \in Outsiders
        BY <1>2, <2>1, <4>1 DEF Seen
      <4> QED BY <4>2 DEF HasForeign
    <3> QED BY <3>1
  <2> QED BY <2>1, <2>2 DEF CallerServed, SeenBy, HasForeign
<1> QED BY <1>3 DEF Served

LEMMA NextServes ==
    ASSUME SidecarsTell, ForeignIsForeign, BundleInv, Served, [Next]_vars
    PROVE  Served'
<1>1. CASE UNCHANGED vars
  <2>1. UNCHANGED <<dest, pc, call>>
    BY <1>1 DEF vars
  <2>2. \A q \in Procs : Seen(q)' = Seen(q)
    BY <2>1 DEF Seen
  <2> QED BY <2>1, <2>2 DEF Served, CallerServed, SeenBy, HasForeign
<1>2. ASSUME NEW p \in Procs, CommitStep(p) PROVE Served'
  BY <1>2, DraftServes, AttemptServes, EndServes, CleanServes, LeaveServes DEF CommitStep
<1>3. ASSUME NEW p \in Procs, RecoveryStep(p) PROVE Served'
  BY <1>3, RecoverServes, EndServes, LeaveServes DEF RecoveryStep
<1> QED BY <1>1, <1>2, <1>3, RequestServes, EnterServes, AttemptServes, LeaveServes, OutsideServes
     DEF Next

(* No lost update: from the snapshot its caller took, over a reconciliation  *)
(* of an earlier attempt, to the replaces, a call works on the one pair.     *)
THEOREM CallersLoseNothing ==
    ASSUME SidecarsTell, ForeignIsForeign
    PROVE  Spec => []ReplacesWhatWasSeen
<1>1. Init => Served
  BY DEF Init, Served, CallerServed, Drafting, Holding
<1>2. BundleInv /\ Served /\ [Next]_vars => Served'
  BY NextServes
<1>3. Served => ReplacesWhatWasSeen
  BY DEF Served, CallerServed, SeenBy, HasForeign, ReplacesWhatWasSeen
<1> QED BY <1>1, <1>2, <1>3, BundleInvariant, PTL DEF Spec

-----------------------------------------------------------------------------
(* Replay: the invariant.                                                    *)

Replayable(t) ==
    /\ receipts[t] \in Journal
    /\ \A i \in Items : receipts[t].prior[i] \in {Absent, backup[t][i]}

(* A pair that transaction t may undo to: not its own, and if it is that of  *)
(* another, then with the evidence that one needs.                           *)
Undoable(u, t) == u # Payload[t] /\ \A s \in Txns : u = Payload[s] => Replayable(s)

AtRest == ~Readable => \A t \in Txns : dest = Payload[t] => Replayable(t)

(* What has been installed under a journal is backed up, and what is not     *)
(* backed up is as it was.                                                   *)
JournalReplays ==
    Readable =>
        /\ Undoable(journal.prior, journal.txn)
        /\ \A i \in Items :
              \/ Safe(journal, i) \/ Foreign(i)
              \/ IsPrior(journal, i) /\ ~IsOutput(journal, i)
              \/ journal.state = "rolled_back"

Own(j) == [j EXCEPT !.state = "committed"]
AttemptReplays(p) ==
    LET c == call[p]
        j == call[p].journal
    IN  /\ pc[p] \in Drafting => Undoable(Seen(p), c.txn)
        /\ pc[p] \in {"abort", "unpublish"} => dest # Payload[c.txn]
        /\ pc[p] \in Published /\ c.then = "return" => Undoable(j.prior, j.txn)
        /\ pc[p] = "rollback" => Undoable(j.prior, j.txn)
        /\ pc[p] = "restore" => \A i \in c.restore : j.prior[i] # Payload[j.txn][i]
        /\ pc[p] \in {"temp", "mark", "receipt", "clean"} /\ c.outcome = "committed" => AllSafe(j)
        /\ pc[p] \in {"clean", "done"} /\ c.outcome = "committed" => receipts[j.txn] = Own(j)
        /\ pc[p] \in {"rollback"} \cup Holding /\ c.then = "unpublish" =>
              j.txn = c.txn /\ c.outcome = "rolled_back"

ReplayInv == JournalReplays /\ AtRest /\ \A p \in Procs : AttemptReplays(p)

-----------------------------------------------------------------------------
(* What a step does to the evidence of replays.                              *)

LEMMA ReplaysSame ==
    ASSUME UNCHANGED <<receipts, backup>>
    PROVE  \A s \in Txns : Replayable(s)' = Replayable(s)
BY DEF Replayable

(* The evidence of the other transactions.                                   *)
TouchesOnly(t) ==
    \A s \in Txns \ {t} : receipts'[s] = receipts[s] /\ backup'[s] = backup[s]
LEMMA ReplaysStay ==
    ASSUME NEW t, TouchesOnly(t)
    PROVE  \A s \in Txns \ {t} : Replayable(s) => Replayable(s)'
BY DEF Replayable, TouchesOnly

LEMMA UndoableStays ==
    ASSUME NEW u, NEW t, Undoable(u, t), TouchesOnly(t)
    PROVE  Undoable(u, t)'
BY ReplaysStay DEF Undoable

LEMMA UndoableSame ==
    ASSUME NEW u, NEW t, Undoable(u, t), UNCHANGED <<receipts, backup>>
    PROVE  Undoable(u, t)'
BY ReplaysSame DEF Undoable

(* With a foreign half a pair is no transaction's.                           *)
LEMMA ForeignIsUndoable ==
    ASSUME ForeignIsForeign, NEW u, HasForeign(u), NEW t \in Txns
    PROVE  Undoable(u, t) /\ \A s \in Txns : u # Payload[s]
BY DEF ForeignIsForeign, HasForeign, Undoable, Whole

(* The steps of p concern no other process.                                  *)
LEMMA ReplayStep ==
    ASSUME BundleInv, ReplayInv, NEW p \in Procs, OthersStay(p),
           pc[p] \in Locked \/ UNCHANGED <<dest, receipts, backup>>,
           JournalReplays', AtRest', AttemptReplays(p)'
    PROVE  ReplayInv'
<1>1. ASSUME NEW q \in Procs, q # p
      PROVE  AttemptReplays(q)'
  <2>1. pc'[q] = pc[q] /\ call'[q] = call[q] /\ AttemptReplays(q)
    BY <1>1 DEF OthersStay, ReplayInv
  <2>2. CASE pc[q] \in Locked
    <3>1. UNCHANGED <<dest, receipts, backup>>
      BY <1>1, <2>2 DEF BundleInv, OneInside
    <3>2. Seen(q)' = Seen(q)
      BY <2>1, <3>1 DEF Seen
    <3> QED BY <2>1, <3>1, <3>2, ReplaysSame DEF AttemptReplays, Undoable, AllSafe, Safe
  <2>3. CASE pc[q] \notin Locked
    BY <2>1, <2>3 DEF AttemptReplays, Locked, Drafting, Holding, Published
  <2> QED BY <2>2, <2>3
<1> QED BY <1>1 DEF ReplayInv

(* Steps that touch neither the files nor the evidence.                      *)
LEMMA SameReplays ==
    ASSUME BundleInv, ReplayInv, NEW p \in Procs, OthersStay(p),
           UNCHANGED <<dest, receipts, backup, journal>>, AttemptReplays(p)'
    PROVE  ReplayInv'
<1>1. JournalReplays'
  BY ReplaysSame DEF ReplayInv, JournalReplays, Readable, Undoable, Safe, Foreign, IsPrior, IsOutput
<1>2. AtRest'
  BY ReplaysSame DEF ReplayInv, AtRest, Readable
<1> QED BY <1>1, <1>2, ReplayStep

LEMMA IdleReplays ==
    ASSUME NEW p \in Procs, pc'[p] \in {"idle", "called", "recover", "scan"}
    PROVE  AttemptReplays(p)'
BY DEF AttemptReplays, Drafting, Holding, Published

LEMMA ReturnReplays ==
    ASSUME BundleInv, ReplayInv, NEW p \in Procs, Return(p),
           UNCHANGED <<dest, receipts, backup, journal>>
    PROVE  ReplayInv'
<1>1. OthersStay(p) /\ pc'[p] = "idle"
  BY ReturnMoves DEF BundleInv
<1> QED BY <1>1, IdleReplays, SameReplays

(* Until the journal is written the files are not those of the call.         *)
LEMMA DraftDiffers ==
    ASSUME BundleInv, ReplayInv, ForeignIsForeign, NEW p \in Procs, pc[p] \in Drafting
    PROVE  dest # Payload[call[p].txn]
<1> DEFINE c == call[p]
<1>1. /\ c.txn \in Txns /\ Undoable(Seen(p), c.txn)
      /\ \A i \in Items : \/ c.journal.prior[i] = Null
                          \/ IsPrior(c.journal, i) \/ Foreign(i)
  BY DEF BundleInv, CallFits, CallStarted, DraftFits, Drafting, ReplayInv, AttemptReplays
<1>2. ASSUME dest = Payload[c.txn]
      PROVE  FALSE
  <2>1. \A i \in Items : ~Foreign(i)
    BY <1>1, <1>2 DEF ForeignIsForeign, Foreign, Whole
  <2>2. \A i \in Items : Seen(p)[i] = dest[i]
    BY <1>1, <2>1 DEF Seen, IsPrior
  <2>3. Seen(p) = dest
    BY <2>2 DEF Seen, BundleInv, TypeOK, Pair
  <2> QED BY <1>1, <1>2, <2>3 DEF Undoable
<1> QED BY <1>2

-----------------------------------------------------------------------------
(* The steps.                                                                *)

(* Steps that only look.                                                     *)
LEMMA LookReplays ==
    ASSUME BundleInv, ReplayInv, ForeignIsForeign, NEW p \in Procs,
           \/ Enter(p) \/ Refused(p) \/ Done(p) \/ Crash(p) \/ Scan(p)
           \/ \E t \in Txns : Request(p, t)
    PROVE  ReplayInv'
<1>0. UNCHANGED <<dest, receipts, backup, journal>>
  BY DEF Enter, Refused, Done, Crash, Request, Scan, evidence
<1>1. CASE Return(p)
  BY <1>0, <1>1, ReturnReplays
<1>2. CASE Enter(p) /\ ~Return(p)
  <2>1. OthersStay(p) /\ pc'[p] \in {"scan", "recover"}
    BY <1>2 DEF Enter, BundleInv, TypeOK, Goto, OthersStay
  <2> QED BY <1>0, <2>1, IdleReplays, SameReplays
<1>3. CASE \E t \in Txns : Request(p, t)
  <2>1. OthersStay(p) /\ pc'[p] = "called"
    BY <1>3 DEF BundleInv, TypeOK, Request, Goto, OthersStay
  <2> QED BY <1>0, <2>1, IdleReplays, SameReplays
<1>4. CASE Scan(p) /\ ~Return(p)
  <2> DEFINE e == [txn |-> txn(p), state |-> "prepared", prior |-> [i \in Items |-> Null]]
  <2>1. /\ OthersStay(p) /\ pc[p] = "scan" /\ pc'[p] = "stage" /\ dest # Payload[call[p].txn]
        /\ call'[p] = [NoCall EXCEPT !.txn = txn(p), !.expected = call[p].expected, !.journal = e]
    BY <1>4 DEF Scan, BundleInv, TypeOK, Goto, OthersStay, txn
  <2> HIDE DEF e
  <2>2. call'[p].txn = call[p].txn /\ call'[p].journal = e /\ call'[p].then = "return"
        /\ call'[p].outcome = "committed"
    BY <2>1 DEF NoCall, txn
  <2>3. Seen(p)' = dest
    BY <1>0, <2>2 DEF Seen, e, BundleInv, TypeOK, Pair
  <2>4. Undoable(dest, call[p].txn)
    BY <2>1 DEF ReplayInv, AtRest, Undoable, Readable, BundleInv, CallFits, JournalFits
  <2>5. AttemptReplays(p)'
    <3>1. Undoable(Seen(p), call[p].txn)'
      BY <1>0, <2>2, <2>3, <2>4, ReplaysSame DEF Undoable
    <3> QED BY <2>1, <2>2, <3>1 DEF AttemptReplays, Drafting, Published, Holding
  <2> QED BY <1>0, <2>1, <2>5, SameReplays
<1> QED BY <1>1, <1>2, <1>3, <1>4 DEF Refused, Done, Crash

LEMMA StageReplays ==
    ASSUME BundleInv, ReplayInv, NEW p \in Procs, Stage(p)
    PROVE  ReplayInv'
<1>1. /\ OthersStay(p) /\ SameCall(p) /\ pc[p] = "stage" /\ pc'[p] \in {"stage", "backup"}
      /\ UNCHANGED <<dest, receipts, backup, journal>> /\ call[p].then = "return"
  BY ItemMoves DEF Stage, BundleInv, Places, Locked, CallFits, DraftFits, Drafting
<1>2. Seen(p)' = Seen(p)
  BY <1>1 DEF Seen, SameCall
<1>3. Undoable(Seen(p), call[p].txn)'
  BY <1>1, <1>2, ReplaysSame DEF ReplayInv, AttemptReplays, Drafting, Undoable, SameCall
<1>4. AttemptReplays(p)'
  BY <1>1, <1>3 DEF AttemptReplays, SameCall, Drafting, Published, Holding
<1> QED BY <1>1, <1>4, SameReplays

LEMMA BackupReplays ==
    ASSUME BundleInv, ReplayInv, ForeignIsForeign, NEW p \in Procs, Backup(p)
    PROVE  ReplayInv'
<1> DEFINE t == call[p].txn
<1>0. /\ pc[p] = "backup" /\ journal = Absent /\ UNCHANGED <<dest, receipts, journal>>
      /\ t \in Txns /\ dest # Payload[t] /\ pc[p] \in Locked
  BY BackupShape, DraftDiffers DEF Drafting, Locked
<1>1. CASE Goto(p, "abort") /\ UNCHANGED <<backup, call>>
  <2>1. OthersStay(p) /\ pc'[p] = "abort" /\ call'[p] = call[p]
    BY <1>1, GotoMoves DEF BundleInv
  <2>2. AttemptReplays(p)'
    BY <1>0, <2>1 DEF AttemptReplays, Drafting, Published, Holding
  <2> QED BY <1>0, <1>1, <2>1, <2>2, SameReplays
<1>2. CASE Backs(p)
  <2>1. /\ OthersStay(p) /\ pc'[p] \in {"backup", "journal"}
        /\ call'[p].txn = t /\ call'[p].then = "return"
    BY <1>0, <1>2, BackupReads DEF MovesTo
  <2>2. Seen(p)' = Seen(p)
    BY <1>2, BackupSees
  <2>3. TouchesOnly(t)
    BY <1>0, <1>2 DEF Backs, TouchesOnly, BundleInv, TypeOK
  <2>4. JournalReplays'
    BY <1>0 DEF JournalReplays, Readable
  <2>5. AtRest'
    BY <1>0, <2>3, ReplaysStay DEF AtRest, ReplayInv, Readable
  <2>6. Undoable(Seen(p), t)'
    <3>1. Undoable(Seen(p), t)
      BY <1>0 DEF ReplayInv, AttemptReplays, Drafting
    <3> QED BY <2>1, <2>2, <2>3, <3>1, ReplaysStay DEF Undoable
  <2>7. AttemptReplays(p)'
    BY <2>1, <2>6 DEF AttemptReplays, Drafting, Published, Holding
  <2> QED BY <1>0, <2>1, <2>4, <2>5, <2>7, ReplayStep
<1> QED BY <1>1, <1>2, BackupShape

LEMMA PublishReplays ==
    ASSUME BundleInv, ReplayInv, NEW p \in Procs, PublishJournal(p)
    PROVE  ReplayInv'
<1>0. /\ OthersStay(p) /\ pc[p] = "journal" /\ pc'[p] = "recheck" /\ call'[p] = call[p]
      /\ UNCHANGED <<dest, receipts, backup>> /\ journal' = call[p].journal /\ pc[p] \in Locked
  BY GotoMoves DEF PublishJournal, BundleInv, Locked
<1>1. PICK j \in Draft :
          /\ call[p].journal = j /\ j.txn = call[p].txn
          /\ \A i \in Items : j.prior[i] # Null /\ Safe(j, i)
          /\ call[p].then = "return" /\ call[p].outcome = "committed"
  BY <1>0 DEF BundleInv, CallFits, DraftFits, ReadSoFar, Drafting
<1>2. j.prior = Seen(p) /\ j \in Journal
  BY <1>1, DraftDone DEF Seen, Journal, Pair
<1>3. Undoable(j.prior, j.txn)
  BY <1>0, <1>1, <1>2 DEF ReplayInv, AttemptReplays, Drafting
<1>4. Undoable(j.prior, j.txn)' /\ \A i \in Items : Safe(j, i)'
  BY <1>0, <1>1, <1>3, UndoableSame DEF Safe
<1>5. JournalReplays'
  BY <1>0, <1>1, <1>4 DEF JournalReplays
<1>6. AtRest'
  BY <1>0, <1>1, <1>2, BundleAssumption DEF AtRest, Readable
<1>7. AttemptReplays(p)'
  BY <1>0, <1>1, <1>4 DEF AttemptReplays, Drafting, Published, Holding
<1> QED BY <1>0, <1>5, <1>6, <1>7, ReplayStep

(* What an attempt needs: a pair to go back to, of another attempt.          *)
LEMMA AttemptUndoes ==
    ASSUME BundleInv, ReplayInv, NEW p \in Procs, pc[p] \in Published, call[p].then = "return"
    PROVE  /\ Undoable(call[p].journal.prior, call[p].journal.txn)
           /\ AllSafe(call[p].journal) /\ call[p].journal \in Journal
           /\ call[p].journal.txn = call[p].txn /\ call[p].outcome = "committed"
BY DEF BundleInv, CallFits, AttemptFits, ReplayInv, AttemptReplays

LEMMA HandleReplays ==
    ASSUME BundleInv, ReplayInv, NEW p \in Procs, pc[p] \in Published, call[p].then = "return",
           Handle(p), UNCHANGED <<dest, receipts, backup, journal>>
    PROVE  ReplayInv'
<1>1. /\ OthersStay(p) /\ pc'[p] = "rollback" /\ call'[p].txn = call[p].txn
      /\ call'[p].journal = call[p].journal /\ call'[p].outcome = "rolled_back"
  BY HandleMoves DEF BundleInv
<1>2. PICK j \in Journal : j = call[p].journal /\ Undoable(j.prior, j.txn) /\ j.txn = call[p].txn
  BY AttemptUndoes
<1>3. Undoable(j.prior, j.txn)'
  BY <1>2, UndoableSame
<1>4. AttemptReplays(p)'
  BY <1>1, <1>2, <1>3 DEF AttemptReplays, Drafting, Published, Holding
<1> QED BY <1>1, <1>4, SameReplays

LEMMA CheckReplays ==
    ASSUME BundleInv, ReplayInv, ForeignIsForeign, NEW p \in Procs,
           RecheckPrior(p) \/ Verify(p) \/ Fail(p)
    PROVE  ReplayInv'
<1>0. UNCHANGED <<dest, receipts, backup, journal>>
  BY DEF RecheckPrior, Verify, Fail, evidence
<1>1. pc[p] \in Installing => pc[p] \in Published /\ call[p].then = "return"
  BY DEF Published, Installing, BundleInv, CallFits, JournalFits
<1>2. CASE Handle(p)
  <2>1. pc[p] \in Published /\ call[p].then = "return"
    BY <1>1, <1>2 DEF RecheckPrior, Verify, Fail, Installing, Handle, Goto, Unpublished, BundleInv, TypeOK
  <2> QED BY <1>0, <1>2, <2>1, HandleReplays
<1>3. CASE pc[p] \in Unpublished /\ Goto(p, "abort") /\ UNCHANGED call
  <2>1. OthersStay(p) /\ pc'[p] = "abort" /\ call'[p] = call[p] /\ dest # Payload[call[p].txn]
    BY <1>3, GotoMoves, DraftDiffers DEF BundleInv, Unpublished, Drafting
  <2>2. AttemptReplays(p)'
    BY <1>0, <2>1 DEF AttemptReplays, Drafting, Published, Holding
  <2> QED BY <1>0, <2>1, <2>2, SameReplays
<1>4. CASE \E place \in {"replace", "temp"} :
              pc[p] \in Installing /\ Goto(p, place) /\ UNCHANGED call
  <2>1. /\ OthersStay(p) /\ pc'[p] \in {"replace", "temp"} /\ call'[p] = call[p]
        /\ pc[p] \in Published /\ call[p].then = "return"
    BY <1>1, <1>4, GotoMoves DEF BundleInv
  <2>2. PICK j \in Journal : /\ j = call[p].journal /\ Undoable(j.prior, j.txn)
                             /\ \A i \in Items : Safe(j, i)
    BY <2>1, AttemptUndoes DEF AllSafe
  <2>3. Undoable(j.prior, j.txn)' /\ \A i \in Items : Safe(j, i)'
    BY <1>0, <2>2, UndoableSame DEF Safe
  <2>4. AttemptReplays(p)'
    BY <2>1, <2>2, <2>3 DEF AttemptReplays, Drafting, Published, Holding, AllSafe
  <2> QED BY <1>0, <2>1, <2>4, SameReplays
<1> QED BY <1>2, <1>3, <1>4 DEF RecheckPrior, Verify, Fail, Installing

LEMMA ReplaceReplays ==
    ASSUME BundleInv, ReplayInv, NEW p \in Procs, Replace(p)
    PROVE  ReplayInv'
<1>0. /\ OthersStay(p) /\ SameCall(p) /\ pc[p] = "replace" /\ pc'[p] \in {"replace", "verify"}
      /\ UNCHANGED <<receipts, backup, journal>> /\ pc[p] \in Locked
      /\ pc[p] \in Published /\ call[p].then = "return" /\ journal = call[p].journal
  BY ItemMoves
     DEF Replace, BundleInv, Places, Locked, Published, CallFits, JournalFits, Installing
<1>1. PICK j \in Journal : /\ j = call[p].journal /\ Undoable(j.prior, j.txn)
                           /\ \A i \in Items : Safe(j, i)
  BY <1>0, AttemptUndoes DEF AllSafe
<1>2. Undoable(j.prior, j.txn)' /\ \A i \in Items : Safe(j, i)'
  BY <1>0, <1>1, UndoableSame DEF Safe
<1>3. journal' = j /\ call'[p].journal = j /\ call'[p].then = "return"
  BY <1>0, <1>1 DEF SameCall
<1>4. JournalReplays'
  BY <1>2, <1>3 DEF JournalReplays
<1>5. AtRest'
  BY <1>3, BundleAssumption DEF AtRest, Readable
<1>6. AttemptReplays(p)'
  BY <1>0, <1>2, <1>3 DEF AttemptReplays, Drafting, Published, Holding
<1> QED BY <1>0, <1>4, <1>5, <1>6, ReplayStep

(* A recovery that finds the pair complete finds its backups too; one that   *)
(* does not may undo it.                                                     *)
LEMMA RecoverReplays ==
    ASSUME BundleInv, ReplayInv, ForeignIsForeign, NEW p \in Procs, Recover(p)
    PROVE  ReplayInv'
<1>0. UNCHANGED <<dest, receipts, backup, journal>> /\ pc[p] = "recover"
  BY DEF Recover, evidence
<1>1. PICK j \in Journal : j = call[p].journal /\ j = journal /\ Readable
  BY <1>0, BundleAssumption DEF BundleInv, CallFits, JournalFits, Working, Readable
<1>2. j.txn \in Txns /\ Undoable(j.prior, j.txn)
  BY <1>1 DEF ReplayInv, JournalReplays, Journal
<1>3. Undoable(j.prior, j.txn)'
  BY <1>0, <1>2, UndoableSame
<1>4. CASE Return(p)
  BY <1>0, <1>4, ReturnReplays
<1>5. CASE \E then \in {"scan", "raise"} : Turns(p, "rollback", "rolled_back", then)
  <2>1. PICK then \in {"scan", "raise"} : Turns(p, "rollback", "rolled_back", then)
    BY <1>5
  <2>2. /\ OthersStay(p) /\ pc'[p] = "rollback" /\ call'[p].journal = j
        /\ call'[p].then = then
    <3>1. call'[p].journal = call[p].journal /\ call'[p].then = then /\ OthersStay(p)
          /\ pc'[p] = "rollback"
      BY <2>1, TurnMoves DEF BundleInv
    <3> QED BY <1>1, <3>1
  <2>3. AttemptReplays(p)'
    BY <1>3, <2>2 DEF AttemptReplays, Drafting, Published, Holding
  <2> QED BY <1>0, <2>2, <2>3, SameReplays
<1>6. CASE /\ AllOutput(j) /\ j.state # "rolled_back"
           /\ \E place \in {"temp", "receipt"}, then \in {"replay", "scan"} :
                 Turns(p, place, "committed", then)
  <2>0. PICK place \in {"temp", "receipt"}, then \in {"replay", "scan"} :
            Turns(p, place, "committed", then)
    BY <1>6
  <2>1. /\ OthersStay(p) /\ pc'[p] = place /\ call'[p].journal = j
        /\ call'[p].then = then
    <3>1. call'[p].journal = call[p].journal /\ call'[p].then = then /\ OthersStay(p)
          /\ pc'[p] = place
      BY <2>0, TurnMoves DEF BundleInv
    <3> QED BY <1>1, <3>1
  <2>2. \A i \in Items : ~Foreign(i) /\ IsOutput(j, i)
    BY <1>2, <1>6 DEF AllOutput, IsOutput, Foreign, ForeignIsForeign, Whole
  <2>3. \A i \in Items : Safe(j, i)
    BY <1>1, <1>6, <2>2 DEF ReplayInv, JournalReplays
  <2>4. \A i \in Items : Safe(j, i)'
    BY <1>0, <2>3 DEF Safe
  <2>5. AttemptReplays(p)'
    BY <2>1, <2>4 DEF AttemptReplays, Drafting, Published, Holding, AllSafe
  <2> QED BY <1>0, <2>1, <2>5, SameReplays
<1>7. Recover(p) /\ call[p].journal = j
  BY <1>1
<1> QED BY <1>4, <1>5, <1>6, <1>7 DEF Recover, Turns

(* The end of an attempt or a recovery, up to the receipt.                   *)
LEMMA TempReplays ==
    ASSUME BundleInv, ReplayInv, NEW p \in Procs, WriteTemp(p) \/ Prove(p)
    PROVE  ReplayInv'
<1>0. UNCHANGED <<dest, receipts, backup, journal>> /\ pc[p] \in {"temp", "prove"}
  BY DEF WriteTemp, Prove, evidence
<1>1. CASE Return(p)
  BY <1>0, <1>1, ReturnReplays
<1>2. CASE /\ UNCHANGED call
           /\ \/ pc[p] = "temp" /\ Goto(p, "mark")
              \/ pc[p] = "prove" /\ Goto(p, "temp")
  <2>1. /\ OthersStay(p) /\ pc'[p] \in {"temp", "mark"} /\ call'[p] = call[p]
    BY <1>2, GotoMoves DEF BundleInv
  <2>2. pc[p] = "prove" => call[p].outcome # "committed" /\ call[p].then # "return"
    BY DEF BundleInv, CallFits, OutcomeFits, Holding
  <2>3. PICK j : j = call[p].journal
    OBVIOUS
  <2>4. Undoable(j.prior, j.txn) => Undoable(j.prior, j.txn)'
    BY <1>0, UndoableSame
  <2>5. AllSafe(j) => AllSafe(j)'
    BY <1>0 DEF AllSafe, Safe
  <2>6. AttemptReplays(p)
    BY DEF ReplayInv
  <2>7. AttemptReplays(p)'
    BY <1>0, <2>1, <2>2, <2>3, <2>4, <2>5, <2>6 DEF AttemptReplays, Drafting, Published, Holding
  <2> QED BY <1>0, <2>1, <2>7, SameReplays
<1> QED BY <1>1, <1>2 DEF WriteTemp, Prove

(* What a call that works from its journal knows of it.                      *)
LEMMA HoldingUndoes ==
    ASSUME BundleInv, ReplayInv, NEW p \in Procs, pc[p] \in Holding
    PROVE  \E j \in Journal :
              /\ j = call[p].journal /\ journal.txn = j.txn /\ journal.prior = j.prior
              /\ Undoable(j.prior, j.txn) /\ j.txn \in Txns /\ j.prior \in Pair
              /\ Readable /\ journal \in Journal
              /\ pc[p] \in {"temp", "mark", "receipt", "clean"} /\ call[p].outcome = "committed" =>
                    \A i \in Items : Safe(j, i)
              /\ pc[p] = "clean" /\ call[p].outcome = "committed" => receipts[j.txn] = Own(j)
              /\ call[p].then = "unpublish" => j.txn = call[p].txn /\ call[p].outcome = "rolled_back"
<1>1. Working(call[p].journal) /\ Readable
  BY AtWork DEF Readable
<1> QED BY <1>1 DEF ReplayInv, JournalReplays, AttemptReplays, AllSafe, Working, Journal

LEMMA MarkReplays ==
    ASSUME BundleInv, ReplayInv, NEW p \in Procs, MarkJournal(p)
    PROVE  ReplayInv'
<1>0. /\ pc[p] = "mark" /\ pc[p] \in Locked /\ pc[p] \in Holding
      /\ UNCHANGED <<dest, receipts, backup, call>>
      /\ journal' = [call[p].journal EXCEPT !.state = call[p].outcome]
      /\ call[p].outcome \in {"committed", "rolled_back"}
  BY DEF MarkJournal, Locked, Holding, BundleInv, TypeOK, CallType
<1>1. PICK place \in {"receipt", "clean"} :
          /\ OthersStay(p) /\ pc'[p] = place /\ call'[p] = call[p]
          /\ place = "clean" => call[p].outcome = "rolled_back"
  <2>1. PICK place \in {"receipt", "clean"} :
            Goto(p, place) /\ (place = "clean" => call[p].outcome # "committed")
    BY DEF MarkJournal
  <2> QED BY <1>0, <2>1, GotoMoves DEF BundleInv
<1>2. PICK j \in Journal :
          /\ j = call[p].journal /\ Undoable(j.prior, j.txn)
          /\ call[p].outcome = "committed" => \A i \in Items : Safe(j, i)
          /\ call[p].then = "unpublish" => j.txn = call[p].txn /\ call[p].outcome = "rolled_back"
  BY <1>0, HoldingUndoes
<1>3. /\ journal' \in Journal /\ journal'.txn = j.txn /\ journal'.prior = j.prior
      /\ journal'.state = call[p].outcome
  BY <1>0, <1>2 DEF Journal
<1>4. Undoable(j.prior, j.txn)' /\ \A i \in Items : Safe(j, i) => Safe(j, i)'
  BY <1>0, <1>2, UndoableSame DEF Safe
<1>5. JournalReplays'
  <2>1. Undoable(journal.prior, journal.txn)'
    BY <1>3, <1>4 DEF Undoable
  <2>2. call[p].outcome = "committed" => \A i \in Items : Safe(journal, i)'
    BY <1>2, <1>3, <1>4 DEF Safe
  <2> QED BY <1>0, <1>3, <2>1, <2>2 DEF JournalReplays
<1>6. AtRest'
  BY <1>3, BundleAssumption DEF AtRest, Readable
<1>7. call'[p].journal = j /\ (call[p].outcome = "committed" => AllSafe(j)')
  BY <1>0, <1>2, <1>4 DEF AllSafe
<1>8. AttemptReplays(p)'
  BY <1>0, <1>1, <1>2, <1>4, <1>7 DEF AttemptReplays, Drafting, Published, Holding
<1> QED BY <1>0, <1>1, <1>5, <1>6, <1>8, ReplayStep

LEMMA ReceiptReplays ==
    ASSUME BundleInv, ReplayInv, NEW p \in Procs, WriteReceipt(p)
    PROVE  ReplayInv'
<1>0. /\ pc[p] = "receipt" /\ pc[p] \in Locked /\ pc[p] \in Holding
      /\ UNCHANGED <<dest, backup, journal>> /\ call[p].outcome = "committed"
  BY DEF WriteReceipt, Locked, Holding, BundleInv, CallFits, OutcomeFits
<1>1. CASE Return(p) /\ UNCHANGED receipts
  BY <1>0, <1>1, ReturnReplays
<1>2. CASE /\ receipts' = [receipts EXCEPT ![call[p].journal.txn] = Own(call[p].journal)]
           /\ Goto(p, "clean") /\ UNCHANGED call
  <2>1. OthersStay(p) /\ pc'[p] = "clean" /\ call'[p] = call[p]
    BY <1>2, GotoMoves DEF BundleInv
  <2>2. PICK j \in Journal :
            /\ j = call[p].journal /\ journal.txn = j.txn /\ journal.prior = j.prior
            /\ Undoable(j.prior, j.txn) /\ j.txn \in Txns /\ Readable
            /\ \A i \in Items : Safe(j, i)
            /\ call[p].then # "unpublish"
    BY <1>0, HoldingUndoes
  <2>3. TouchesOnly(j.txn) /\ receipts'[j.txn] = Own(j)
    BY <1>0, <1>2, <2>2 DEF TouchesOnly, BundleInv, TypeOK
  <2>4. Undoable(j.prior, j.txn)' /\ \A i \in Items : Safe(j, i)'
    BY <1>0, <2>2, <2>3, UndoableStays DEF Safe
  <2>5. JournalReplays'
    <3>1. Undoable(journal.prior, journal.txn)'
      BY <1>0, <2>2, <2>4 DEF Undoable
    <3>2. \A i \in Items : Safe(journal, i)'
      BY <1>0, <2>2, <2>4 DEF Safe
    <3> QED BY <3>1, <3>2 DEF JournalReplays
  <2>6. AtRest'
    BY <1>0, <2>2 DEF AtRest, Readable
  <2>7. call'[p].journal = j /\ AllSafe(j)'
    BY <2>1, <2>2, <2>4 DEF AllSafe
  <2>8. AttemptReplays(p)'
    BY <1>0, <2>1, <2>2, <2>3, <2>4, <2>7 DEF AttemptReplays, Drafting, Published, Holding
  <2> QED BY <1>0, <2>1, <2>5, <2>6, <2>8, ReplayStep
<1> QED BY <1>1, <1>2 DEF WriteReceipt, Own

(* When the journal goes, the pair that stays is the one its receipt names,  *)
(* or the prior one with the evidence it had.                                *)
LEMMA RemovalRests ==
    ASSUME BundleInv, ReplayInv, ForeignIsForeign, Fresh, NEW p \in Procs, pc[p] = "clean",
           UNCHANGED <<dest, receipts, backup>>
    PROVE  /\ AtRest'
           /\ call[p].then = "unpublish" => dest # Payload[call[p].txn]
<1>1. PICK j \in Journal :
          /\ j = call[p].journal /\ Undoable(j.prior, j.txn)
          /\ j.txn \in Txns /\ j.prior \in Pair
          /\ call[p].outcome = "committed" => \A i \in Items : Safe(j, i)
          /\ call[p].outcome = "committed" => receipts[j.txn] = Own(j)
          /\ call[p].then = "unpublish" => j.txn = call[p].txn /\ call[p].outcome = "rolled_back"
  BY HoldingUndoes DEF Holding
<1>2. /\ dest \in Pair
      /\ IF call[p].outcome = "committed" THEN AtOutput(j) ELSE AtPrior(j)
  BY <1>1 DEF BundleInv, TypeOK, CallFits, OutcomeFits
<1>3. \A t \in Txns : dest = Payload[t] => \A i \in Items : ~Foreign(i)
  BY DEF ForeignIsForeign, Foreign, Whole
<1>4. CASE call[p].outcome = "committed"
  <2>1. ASSUME NEW t \in Txns, dest = Payload[t]
        PROVE  Replayable(t)'
    <3>1. dest = Payload[j.txn]
      BY <1>1, <1>2, <1>3, <1>4, <2>1, PayloadsArePairs, PairsEqual DEF AtOutput, IsOutput
    <3>2. t = j.txn
      BY <1>1, <2>1, <3>1 DEF Fresh
    <3>3. receipts[t] \in Journal /\ receipts[t].prior = j.prior
      BY <1>1, <1>4, <3>2 DEF Own, Journal
    <3>4. Replayable(t)
      BY <1>1, <1>4, <3>2, <3>3 DEF Replayable, Safe
    <3> QED BY <3>4, ReplaysSame
  <2> QED BY <1>1, <1>4, <2>1 DEF AtRest
<1>5. CASE call[p].outcome # "committed"
  <2>1. ASSUME NEW t \in Txns, dest = Payload[t]
        PROVE  Replayable(t)' /\ t # j.txn
    <3>1. dest = j.prior
      BY <1>1, <1>2, <1>3, <1>5, <2>1, PairsEqual DEF AtPrior, IsPrior
    <3>2. Replayable(t) /\ t # j.txn
      BY <1>1, <2>1, <3>1 DEF Undoable
    <3> QED BY <3>2, ReplaysSame
  <2> QED BY <1>1, <2>1 DEF AtRest
<1> QED BY <1>4, <1>5

LEMMA CleanReplays ==
    ASSUME BundleInv, ReplayInv, ForeignIsForeign, Fresh, NEW p \in Procs, Clean(p)
    PROVE  ReplayInv'
<1>0. /\ pc[p] = "clean" /\ pc[p] \in Locked /\ pc[p] \in Holding
      /\ UNCHANGED <<dest, receipts>> /\ AttemptReplays(p)
  BY DEF Clean, Locked, Holding, ReplayInv
<1>1. PICK j \in Journal :
          /\ j = call[p].journal /\ journal.txn = j.txn /\ journal.prior = j.prior
          /\ Undoable(j.prior, j.txn) /\ j.txn \in Txns /\ Readable
          /\ call[p].outcome = "committed" => \A i \in Items : Safe(j, i)
          /\ call[p].outcome = "committed" => receipts[j.txn] = Own(j)
          /\ call[p].then = "unpublish" => j.txn = call[p].txn /\ call[p].outcome = "rolled_back"
  BY <1>0, HoldingUndoes
<1>2. call[p].outcome = "rolled_back" => call[p].then # "return"
  BY <1>0 DEF BundleInv, CallFits, OutcomeFits
<1>3. CASE UNCHANGED <<backup, journal, pc, call>>
  <2>1. OthersStay(p) /\ Undoable(j.prior, j.txn)' /\ (AllSafe(j) => AllSafe(j)')
    BY <1>0, <1>1, <1>3, UndoableSame DEF OthersStay, AllSafe, Safe
  <2>2. AttemptReplays(p)'
    BY <1>0, <1>1, <1>2, <1>3, <2>1 DEF AttemptReplays, Drafting, Published, Holding
  <2> QED BY <1>0, <1>3, <2>1, <2>2, SameReplays
<1>4. CASE /\ call[p].outcome = "rolled_back" /\ UNCHANGED <<journal, pc, call>>
           /\ \E i \in Items : backup' = [backup EXCEPT ![call[p].journal.txn][i] = Absent]
  <2>1. OthersStay(p) /\ TouchesOnly(j.txn)
    BY <1>0, <1>1, <1>4 DEF OthersStay, TouchesOnly, BundleInv, TypeOK
  <2>2. Undoable(j.prior, j.txn)'
    BY <1>1, <2>1, UndoableStays
  <2>3. Undoable(journal.prior, journal.txn)'
    BY <1>1, <1>4, <2>2 DEF Undoable
  <2>4. journal.state = "rolled_back"
    BY <1>0, <1>4 DEF BundleInv, CallFits, JournalFits
  <2>5. JournalReplays'
    BY <1>4, <2>3, <2>4 DEF JournalReplays
  <2>6. AtRest'
    BY <1>1, <1>4 DEF AtRest, Readable
  <2>7. AttemptReplays(p)'
    BY <1>0, <1>1, <1>2, <1>4, <2>2 DEF AttemptReplays, Drafting, Published, Holding
  <2> QED BY <1>0, <2>1, <2>5, <2>6, <2>7, ReplayStep
<1>5. CASE /\ journal' = Absent /\ UNCHANGED backup
           /\ IF call[p].then \in {"replay", "raise"} THEN Return(p)
              ELSE Goto(p, IF call[p].then = "return" THEN "done" ELSE call[p].then)
                   /\ UNCHANGED call
  <2>1. AtRest' /\ (call[p].then = "unpublish" => dest # Payload[call[p].txn])
    BY <1>0, <1>5, RemovalRests
  <2>2. JournalReplays'
    BY <1>5 DEF JournalReplays, Readable
  <2>3. CASE Return(p)
    <3>1. OthersStay(p) /\ pc'[p] = "idle"
      BY <2>3, ReturnMoves DEF BundleInv
    <3> QED BY <1>0, <2>1, <2>2, <3>1, IdleReplays, ReplayStep
  <2>4. CASE ~Return(p)
    <3>0. call[p].then \in {"return", "scan", "replay", "raise", "unpublish"}
          /\ call[p].outcome \in {"committed", "rolled_back"}
      BY DEF BundleInv, TypeOK, CallType
    <3>1. PICK place \in {"done", "scan", "unpublish"} :
              /\ OthersStay(p) /\ pc'[p] = place /\ call'[p] = call[p]
              /\ place = "done" => call[p].then = "return"
              /\ place = "unpublish" => call[p].then = "unpublish"
      <4>1. PICK place \in {"done", "scan", "unpublish"} :
                /\ Goto(p, place) /\ UNCHANGED call
                /\ place = "done" => call[p].then = "return"
                /\ place = "unpublish" => call[p].then = "unpublish"
        BY <1>5, <2>4, <3>0
      <4> QED BY <4>1, GotoMoves DEF BundleInv
    <3>2. Undoable(j.prior, j.txn)'
      BY <1>0, <1>1, <1>5, UndoableSame
    <3>3. AttemptReplays(p)'
      BY <1>0, <1>1, <1>2, <2>1, <3>0, <3>1, <3>2 DEF AttemptReplays, Drafting, Published, Holding
    <3> QED BY <1>0, <2>1, <2>2, <3>1, <3>3, ReplayStep
  <2> QED BY <2>3, <2>4
<1> QED BY <1>3, <1>4, <1>5 DEF Clean, BackupLeft

LEMMA RollbackReplays ==
    ASSUME BundleInv, ReplayInv, NEW p \in Procs, Rollback(p)
    PROVE  ReplayInv'
<1>0. /\ pc[p] = "rollback" /\ pc[p] \in Locked /\ UNCHANGED <<dest, receipts, backup>>
      /\ call[p].outcome = "rolled_back" /\ call[p].then # "return"
  BY DEF Rollback, Locked, BundleInv, CallFits, OutcomeFits
<1>1. PICK j \in Journal :
          /\ j = call[p].journal /\ Undoable(j.prior, j.txn)
          /\ journal = Absent => \A i \in Items : Safe(j, i)
          /\ call[p].then = "unpublish" => j.txn = call[p].txn /\ call[p].outcome = "rolled_back"
  <2>1. call[p].journal \in Journal /\ (journal = Absent => AllSafe(call[p].journal))
    BY <1>0 DEF BundleInv, CallFits, JournalFits, Working
  <2> QED BY <1>0, <2>1 DEF ReplayInv, AttemptReplays, AllSafe
<1>2. Undoable(j.prior, j.txn)' /\ \A i \in Items : Safe(j, i) => Safe(j, i)'
  BY <1>0, <1>1, UndoableSame DEF Safe
<1>3. CASE Return(p) /\ UNCHANGED journal
  BY <1>0, <1>3, ReturnReplays
<1>4. CASE journal = Absent /\ journal' = call[p].journal /\ UNCHANGED <<pc, call>>
  <2>1. JournalReplays'
    BY <1>1, <1>2, <1>4 DEF JournalReplays
  <2>2. AtRest'
    BY <1>1, <1>4, BundleAssumption DEF AtRest, Readable
  <2>3. AttemptReplays(p)'
    BY <1>0, <1>1, <1>2, <1>4 DEF AttemptReplays, Drafting, Published, Holding
  <2> QED BY <1>0, <1>4, <2>1, <2>2, <2>3, ReplayStep DEF OthersStay
<1>5. CASE /\ UNCHANGED journal /\ Goto(p, "restore")
           /\ call' = [call EXCEPT ![p].restore = ToRestore(call[p].journal)]
  <2>1. OthersStay(p) /\ pc'[p] = "restore" /\ SameCall(p) /\ call'[p].restore = ToRestore(j)
    BY <1>1, <1>5 DEF BundleInv, TypeOK, CallType, Goto, OthersStay, SameCall
  <2>2. \A i \in ToRestore(j) : j.prior[i] # Payload[j.txn][i]
    BY DEF ToRestore, IsOutput, IsPrior
  <2>3. call'[p].journal = j
    BY <1>1, <2>1 DEF SameCall
  <2>4. AttemptReplays(p)'
    BY <1>0, <1>1, <2>1, <2>2, <2>3 DEF AttemptReplays, Drafting, Published, Holding, SameCall
  <2> QED BY <1>0, <1>5, <2>1, <2>4, SameReplays
<1> QED BY <1>3, <1>4, <1>5 DEF Rollback

LEMMA RestoreReplays ==
    ASSUME BundleInv, ReplayInv, NEW p \in Procs, Restore(p)
    PROVE  ReplayInv'
<1>0. /\ pc[p] = "restore" /\ pc[p] \in Locked /\ pc[p] \in Holding
      /\ UNCHANGED <<receipts, journal>>
      /\ call[p].outcome = "rolled_back" /\ call[p].then # "return"
      /\ call[p].restore \subseteq Items
  BY DEF Restore, Locked, Holding, BundleInv, TypeOK, CallType, CallFits, OutcomeFits
<1>1. PICK j \in Journal :
          /\ j = call[p].journal /\ journal.txn = j.txn /\ journal.prior = j.prior
          /\ Undoable(j.prior, j.txn) /\ j.txn \in Txns /\ Readable
          /\ call[p].then = "unpublish" => j.txn = call[p].txn /\ call[p].outcome = "rolled_back"
  BY <1>0, HoldingUndoes
<1>2. \A i \in call[p].restore : j.prior[i] # Payload[j.txn][i]
  BY <1>0, <1>1 DEF ReplayInv, AttemptReplays
<1>3. CASE Goto(p, "prove") /\ UNCHANGED <<dest, backup, call>>
  <2>1. OthersStay(p) /\ pc'[p] = "prove" /\ call'[p] = call[p]
    BY <1>3, GotoMoves DEF BundleInv
  <2>2. AttemptReplays(p)'
    BY <1>0, <1>1, <2>1 DEF AttemptReplays, Drafting, Published, Holding
  <2> QED BY <1>0, <1>3, <2>1, <2>2, SameReplays
<1>4. ASSUME NEW i \in call[p].restore,
             dest' = [dest EXCEPT ![i] = call[p].journal.prior[i]],
             backup' = [backup EXCEPT ![call[p].journal.txn][i] =
                            IF call[p].journal.prior[i] = Absent THEN @ ELSE Absent],
             call' = [call EXCEPT ![p].restore = call[p].restore \ {i}],
             UNCHANGED pc
      PROVE  ReplayInv'
  <2>1. /\ OthersStay(p) /\ SameCall(p) /\ call'[p].restore = call[p].restore \ {i}
        /\ pc'[p] = "restore"
    BY <1>0, <1>4 DEF BundleInv, TypeOK, CallType, OthersStay, SameCall
  <2>2. /\ i \in Items /\ dest'[i] = j.prior[i]
        /\ \A k \in Items \ {i} : dest'[k] = dest[k] /\ backup'[j.txn][k] = backup[j.txn][k]
    BY <1>0, <1>1, <1>4 DEF BundleInv, TypeOK, Pair
  <2>3. TouchesOnly(j.txn)
    BY <1>0, <1>1, <1>4 DEF TouchesOnly, BundleInv, TypeOK
  <2>4. Undoable(journal.prior, journal.txn)'
    <3>1. Undoable(j.prior, j.txn)'
      BY <1>1, <2>3, UndoableStays
    <3> QED BY <1>0, <1>1, <3>1 DEF Undoable
  <2>5. \A k \in Items :
            ( \/ Safe(journal, k) \/ Foreign(k)
              \/ IsPrior(journal, k) /\ ~IsOutput(journal, k)
              \/ journal.state = "rolled_back" )'
    <3>1. (IsPrior(journal, i) /\ ~IsOutput(journal, i))'
      BY <1>0, <1>1, <1>2, <2>2 DEF IsPrior, IsOutput
    <3>2. ASSUME NEW k \in Items \ {i}
          PROVE  ( \/ Safe(journal, k) \/ Foreign(k)
                   \/ IsPrior(journal, k) /\ ~IsOutput(journal, k)
                   \/ journal.state = "rolled_back" )'
      <4>1. \/ Safe(journal, k) \/ Foreign(k)
            \/ IsPrior(journal, k) /\ ~IsOutput(journal, k)
            \/ journal.state = "rolled_back"
        BY <1>1 DEF ReplayInv, JournalReplays
      <4>2. dest'[k] = dest[k] /\ backup'[journal.txn][k] = backup[journal.txn][k]
        BY <1>1, <2>2
      <4> QED BY <1>0, <4>1, <4>2 DEF Safe, Foreign, IsPrior, IsOutput
    <3> QED BY <3>1, <3>2
  <2>6. JournalReplays'
    BY <2>4, <2>5 DEF JournalReplays
  <2>7. AtRest'
    BY <1>0, <1>1 DEF AtRest, Readable
  <2>8. AttemptReplays(p)'
    <3>1. call'[p].journal = j
      BY <1>1, <2>1 DEF SameCall
    <3> QED BY <1>0, <1>1, <1>2, <2>1, <3>1
         DEF AttemptReplays, Drafting, Published, Holding, SameCall
  <2> QED BY <1>0, <2>1, <2>6, <2>7, <2>8, ReplayStep
<1> QED BY <1>3, <1>4 DEF Restore

LEMMA UnpublishReplays ==
    ASSUME BundleInv, ReplayInv, NEW p \in Procs, Unpublish(p)
    PROVE  ReplayInv'
<1> DEFINE t == call[p].txn
<1>1. /\ pc[p] = "unpublish" /\ pc[p] \in Locked /\ UNCHANGED <<dest, backup, journal>>
      /\ receipts' = [receipts EXCEPT ![t] = Absent] /\ Return(p)
      /\ journal = Absent /\ dest # Payload[t]
  BY DEF Unpublish, txn, Locked, BundleInv, CallFits, JournalFits, ReplayInv, AttemptReplays
<1>2. TouchesOnly(t)
  BY <1>1 DEF TouchesOnly, BundleInv, TypeOK
<1>3. JournalReplays'
  BY <1>1 DEF JournalReplays, Readable
<1>4. AtRest'
  BY <1>1, <1>2, ReplaysStay DEF AtRest, ReplayInv, Readable
<1>5. OthersStay(p) /\ pc'[p] = "idle"
  BY <1>1, ReturnMoves DEF BundleInv
<1> QED BY <1>1, <1>3, <1>4, <1>5, IdleReplays, ReplayStep

LEMMA AbortReplays ==
    ASSUME BundleInv, ReplayInv, NEW p \in Procs, Abort(p)
    PROVE  ReplayInv'
<1> DEFINE t == call[p].txn
<1>1. /\ pc[p] = "abort" /\ pc[p] \in Locked /\ UNCHANGED <<dest, receipts, journal>>
      /\ journal = Absent /\ dest # Payload[t]
  BY DEF Abort, Locked, BundleInv, CallFits, JournalFits, ReplayInv, AttemptReplays
<1>2. CASE Return(p) /\ UNCHANGED backup
  BY <1>1, <1>2, ReturnReplays
<1>3. CASE /\ UNCHANGED <<pc, call>>
           /\ \/ UNCHANGED backup
              \/ \E i \in Items : backup' = [backup EXCEPT ![t][i] = Absent]
  <2>1. OthersStay(p) /\ TouchesOnly(t)
    BY <1>1, <1>3 DEF OthersStay, TouchesOnly, BundleInv, TypeOK
  <2>2. JournalReplays'
    BY <1>1 DEF JournalReplays, Readable
  <2>3. AtRest'
    BY <1>1, <2>1, ReplaysStay DEF AtRest, ReplayInv, Readable
  <2>4. AttemptReplays(p)'
    BY <1>1, <1>3 DEF AttemptReplays, Drafting, Published, Holding
  <2> QED BY <1>1, <2>1, <2>2, <2>3, <2>4, ReplayStep
<1> QED BY <1>2, <1>3 DEF Abort, txn

LEMMA CrashWritingReplays ==
    ASSUME BundleInv, ReplayInv, ForeignIsForeign, NEW p \in Procs, CrashWriting(p)
    PROVE  ReplayInv'
<1>0. Return(p) /\ UNCHANGED <<dest, journalTemp>> /\ OthersStay(p) /\ pc'[p] = "idle"
  BY ReturnMoves DEF CrashWriting, BundleInv
<1>1. CASE UNCHANGED <<backup, journal, receipts>>
  BY <1>0, <1>1, ReturnReplays
<1>2. CASE /\ pc[p] = "backup" /\ UNCHANGED <<journal, receipts>>
           /\ \E i \in Items : backup' = [backup EXCEPT ![txn(p)][i] = Partial]
  <2>1. journal = Absent /\ dest # Payload[call[p].txn] /\ pc[p] \in Locked
    BY <1>2, DraftDiffers DEF BundleInv, CallFits, JournalFits, Drafting, Locked
  <2>2. TouchesOnly(call[p].txn)
    BY <1>2 DEF TouchesOnly, txn, BundleInv, TypeOK
  <2>3. JournalReplays'
    BY <1>2, <2>1 DEF JournalReplays, Readable
  <2>4. AtRest'
    BY <1>0, <1>2, <2>1, <2>2, ReplaysStay DEF AtRest, ReplayInv, Readable
  <2> QED BY <1>0, <2>1, <2>3, <2>4, IdleReplays, ReplayStep
<1>3. CASE /\ pc[p] = "journal" \/ (pc[p] = "rollback" /\ journal = Absent)
           /\ journal' = Partial /\ UNCHANGED <<backup, receipts>>
  <2>1. journal = Absent /\ pc[p] \in Locked
    BY <1>3 DEF BundleInv, CallFits, JournalFits, Drafting, Locked
  <2>2. JournalReplays'
    BY <1>3 DEF JournalReplays, Readable
  <2>3. AtRest'
    BY <1>0, <1>3, <2>1, ReplaysSame DEF AtRest, ReplayInv, Readable
  <2> QED BY <1>0, <2>1, <2>2, <2>3, IdleReplays, ReplayStep
<1>4. CASE /\ pc[p] = "receipt" /\ UNCHANGED <<backup, journal>>
           /\ receipts' = [receipts EXCEPT ![call[p].journal.txn] = Partial]
  <2>1. PICK j \in Journal :
            /\ j = call[p].journal /\ journal.txn = j.txn /\ journal.prior = j.prior
            /\ Undoable(j.prior, j.txn) /\ j.txn \in Txns /\ Readable
    BY <1>4, HoldingUndoes DEF Holding
  <2>2. TouchesOnly(j.txn)
    BY <1>4, <2>1 DEF TouchesOnly, BundleInv, TypeOK
  <2>3. Undoable(journal.prior, journal.txn)'
    <3>1. Undoable(j.prior, j.txn)'
      BY <2>1, <2>2, UndoableStays
    <3> QED BY <1>4, <2>1, <3>1 DEF Undoable
  <2>4. JournalReplays'
    BY <1>0, <1>4, <2>1, <2>3
       DEF ReplayInv, JournalReplays, Safe, Foreign, IsPrior, IsOutput
  <2>5. AtRest'
    BY <1>4, <2>1 DEF AtRest, Readable
  <2>6. pc[p] \in Locked
    BY <1>4 DEF Locked
  <2> QED BY <1>0, <2>4, <2>5, <2>6, IdleReplays, ReplayStep
<1>5. call[p].item \in Items
  BY DEF BundleInv, TypeOK, CallType
<1> QED BY <1>1, <1>2, <1>3, <1>4, <1>5 DEF CrashWriting

LEMMA OutsideReplays ==
    ASSUME BundleInv, ReplayInv, ForeignIsForeign, OutsideWrite
    PROVE  ReplayInv'
<1>1. PICK i \in Items, x \in Outsiders : dest' = [dest EXCEPT ![i] = x]
  BY DEF OutsideWrite
<1>2. /\ UNCHANGED <<receipts, backup, journal, pc, call>> /\ dest'[i] \in Outsiders
      /\ \A k \in Items : dest'[k] = dest[k] \/ dest'[k] \in Outsiders
  BY <1>1 DEF OutsideWrite, evidence, BundleInv, TypeOK, Pair
<1>3. HasForeign(dest') /\ \A s \in Txns : dest' # Payload[s]
  BY <1>2 DEF HasForeign, ForeignIsForeign, Whole
<1>4. JournalReplays'
  <2>1. Readable' = Readable /\ (Readable => Undoable(journal.prior, journal.txn)')
    BY <1>2, ReplaysSame DEF ReplayInv, JournalReplays, Undoable, Readable
  <2>2. ASSUME NEW k \in Items, Readable
        PROVE  ( \/ Safe(journal, k) \/ Foreign(k)
                 \/ IsPrior(journal, k) /\ ~IsOutput(journal, k)
                 \/ journal.state = "rolled_back" )'
    BY <1>2, <2>2 DEF ReplayInv, JournalReplays, Safe, Foreign, IsPrior, IsOutput
  <2> QED BY <2>1, <2>2 DEF JournalReplays
<1>5. AtRest'
  BY <1>3 DEF AtRest
<1>6. ASSUME NEW q \in Procs
      PROVE  AttemptReplays(q)'
  <2>1. AttemptReplays(q) /\ pc'[q] = pc[q] /\ call'[q] = call[q]
    BY <1>2 DEF ReplayInv
  <2>2. pc[q] # "idle" => call[q].txn \in Txns
    BY DEF BundleInv, CallFits, CallStarted
  <2>3. PICK j, t : j = call[q].journal /\ t = call[q].txn
    OBVIOUS
  <2>4. Undoable(j.prior, j.txn) => Undoable(j.prior, j.txn)'
    BY <1>2, UndoableSame
  <2>5. AllSafe(j) => AllSafe(j)'
    BY <1>2 DEF AllSafe, Safe
  <2>6. ASSUME pc[q] \in Drafting
        PROVE  Undoable(Seen(q), t)'
    <3>0. t \in Txns /\ Undoable(Seen(q), t)
      BY <2>1, <2>2, <2>3, <2>6 DEF AttemptReplays, Drafting
    <3>1. CASE Seen(q)' = Seen(q)
      BY <1>2, <3>0, <3>1, ReplaysSame DEF Undoable
    <3>2. CASE Seen(q)' # Seen(q)
      <4>1. PICK k \in Items : Seen(q)'[k] # Seen(q)[k]
        BY <2>1, <3>2 DEF Seen
      <4>2. Seen(q)'[k] \in Outsiders
        BY <1>2, <2>1, <4>1 DEF Seen
      <4>3. \A s \in Txns : Seen(q)' # Payload[s]
        BY <4>2 DEF ForeignIsForeign, Whole
      <4> QED BY <3>0, <4>3 DEF Undoable
    <3> QED BY <3>1, <3>2
  <2>7. pc[q] \in {"abort", "unpublish"} => dest' # Payload[t]
    BY <1>3, <2>2, <2>3
  <2> QED BY <1>2, <2>1, <2>3, <2>4, <2>5, <2>6, <2>7 DEF AttemptReplays
<1> QED BY <1>4, <1>5, <1>6 DEF ReplayInv

LEMMA NextReplays ==
    ASSUME ForeignIsForeign, Fresh, BundleInv, ReplayInv, [Next]_vars
    PROVE  ReplayInv'
<1>1. CASE UNCHANGED vars
  <2>1. UNCHANGED <<dest, receipts, backup, journal, pc, call>>
    BY <1>1 DEF vars, evidence
  <2>2. JournalReplays' /\ AtRest'
    BY <2>1, ReplaysSame DEF ReplayInv, JournalReplays, AtRest, Readable, Undoable, Safe, Foreign,
       IsPrior, IsOutput
  <2>3. \A q \in Procs : Seen(q)' = Seen(q)
    BY <2>1 DEF Seen
  <2>4. \A q \in Procs : AttemptReplays(q)'
    BY <2>1, <2>3, ReplaysSame DEF ReplayInv, AttemptReplays, Undoable, AllSafe, Safe
  <2> QED BY <2>2, <2>4 DEF ReplayInv
<1>2. ASSUME NEW p \in Procs, CommitStep(p) PROVE ReplayInv'
  BY <1>2, LookReplays, StageReplays, BackupReplays, PublishReplays, CheckReplays, ReplaceReplays,
     TempReplays, MarkReplays, ReceiptReplays, CleanReplays DEF CommitStep
<1>3. ASSUME NEW p \in Procs, RecoveryStep(p) PROVE ReplayInv'
  BY <1>3, RecoverReplays, RollbackReplays, RestoreReplays, TempReplays, UnpublishReplays,
     AbortReplays DEF RecoveryStep
<1> QED BY <1>1, <1>2, <1>3, LookReplays, CheckReplays, CrashWritingReplays, OutsideReplays
     DEF Next

(* A pair that stands with no journal is one a retry can be answered from:   *)
(* its receipt is complete and the backups it names are there.               *)
THEOREM CommitsStayReplayable ==
    ASSUME ForeignIsForeign, Fresh
    PROVE  Spec => []CommittedIsReplayable
<1>1. Init => ReplayInv
  BY DEF Init, ReplayInv, JournalReplays, AtRest, Readable, Fresh, AttemptReplays, Drafting,
     Published, Holding
<1>2. BundleInv /\ ReplayInv /\ [Next]_vars => ReplayInv'
  BY NextReplays
<1>3. ReplayInv => CommittedIsReplayable
  BY BundleAssumption
     DEF ReplayInv, AtRest, Replayable, Readable, CommittedIsReplayable
<1> QED BY <1>1, <1>2, <1>3, BundleInvariant, PTL DEF Spec

=============================================================================
