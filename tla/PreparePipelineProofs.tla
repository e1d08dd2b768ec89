------------------------ MODULE PreparePipelineProofs ------------------------
(***************************************************************************)
(* The prepare pipeline, for any number of runs, keys, requests, callers,   *)
(* documents and faults: its types, the five safety properties of           *)
(* PreparePipeline, and that it implements WorkflowLedger.  No hypothesis   *)
(* is added to PipelineAssumption and LedgerAssumption.                     *)
(*                                                                         *)
(* The pipeline holds no lock from step to step.  What stands in for one is *)
(* that a run has at most one call that still works on it, the call that    *)
(* created it (Alone): a repeated call only reads, and a cancel or a        *)
(* reconcile moves the state and nothing else.  So what such a call has     *)
(* written so far is what the row holds (Going), whatever comes between its *)
(* steps, and every column is written once (Moved), which is what a caller  *)
(* that read the row earlier lives on (Saw).                                *)
(***************************************************************************)
EXTENDS PreparePipeline, WorkflowLedgerProofs

Procs == Preparers \cup Readers
CallFields == {"run", "key", "request", "repeat", "v", "source", "prior", "made", "kind",
               "view", "effective", "found", "lost"}

-----------------------------------------------------------------------------
(* The inductive invariant.                                                 *)

(* Which functions the variables are; TypeOK says what the rest hold.       *)
Shape ==
    /\ DOMAIN state = Runs /\ DOMAIN revision = Runs /\ DOMAIN rows = Runs
    /\ DOMAIN evidence = Runs /\ DOMAIN stored = Runs
    /\ keys \in [Keys -> [request : Requests, run : Runs] \cup {Null}]
    /\ DOMAIN call = Procs /\ DOMAIN pc = Procs
    /\ \A r \in Runs : evidence[r] = [f \in Fields |-> evidence[r][f]]
    /\ \A r \in Runs : DOMAIN stored[r] = Kinds /\ rows[r] \subseteq Kinds
    /\ \A p \in Procs : DOMAIN call[p] = CallFields

(* The row of a run, its artifacts and its key.                             *)
RowHolds(r) ==
    LET e == evidence[r]
    IN  /\ "candidate" \in rows[r] => e.candidate # Null /\ e.candidate = Edit[e.plan][e.source]
        /\ "diff" \in rows[r] =>
              e.diff = [source |-> e.source, plan |-> e.plan, candidate |-> e.candidate]
        /\ \A kind \in {"candidate", "diff"} \ rows[r] : e[kind] = Null
        /\ state[r] \in PreparedStates =>
              {"candidate", "diff"} \subseteq rows[r] /\ \A f \in Fields : e[f] # Null

ArtifactsHold(r) ==
    \A kind \in rows[r] :
        <<r, kind>> \notin damaged =>
            stored[r][kind] = IF kind = "failure_evidence" THEN [run |-> r]
                              ELSE evidence[r][kind]

Unborn(r) ==
    state[r] = Null =>
        /\ rows[r] = {}
        /\ \A f \in Fields : evidence[r][f] = Null
        /\ \A k \in Keys : keys[k] # Null => keys[k].run # r

KeyHolds(r) ==
    \A k \in Keys : keys[k] # Null /\ keys[k].run = r =>
        evidence[r]["plan"] \in {Null, keys[k].request}

RunInv(r) == RowHolds(r) /\ ArtifactsHold(r) /\ Unborn(r) /\ KeyHolds(r)

(* The calls that still work on a run: all but the repeated ones, which go  *)
(* straight to the last step.                                               *)
Owns(p) == pc[p] \in Steps /\ ~call[p].repeat

Writing == {"write", "confirm", "reopen", "record"}
Opening == {"snapshot", "observe", "inspect"}
Fails(p) == pc[p] = "failing" \/ call[p].kind = "failure_evidence"

Alone ==
    \A p, o \in Procs : Owns(p) /\ Owns(o) /\ call[p].run = call[o].run => p = o

Owner(p) ==
    LET c == call[p]
    IN  /\ pc[p] \in Steps /\ c.repeat => pc[p] = "rehydrate"
        /\ Owns(p) =>
              /\ c.run \in Runs
              /\ state[c.run] # Null
              /\ "failure_evidence" \notin rows[c.run]
              /\ c.kind = "failure_evidence" =>
                    /\ pc[p] \in Writing
                    /\ state[c.run] = "preparing" => c.v = revision[c.run]
              /\ pc[p] \in {"reopen", "record"} =>
                    \/ <<c.run, c.kind>> \in damaged
                    \/ stored[c.run][c.kind] = BodyOf(c)

(* The key of a call is bound to its request and its run, and no key of the *)
(* run to another request.                                                  *)
Keyed(c) ==
    /\ c.request \in Requests
    /\ c.key # Null => c.key \in Keys /\ keys[c.key] = [request |-> c.request, run |-> c.run]
    /\ \A k \in Keys : keys[k] # Null /\ keys[k].run = c.run => keys[k].request = c.request

(* How far a call that has met no error has got: what its local variables   *)
(* and the row hold of each other.                                          *)
Going(p) ==
    LET c == call[p]
        e == evidence[c.run]
    IN  Owns(p) /\ ~Fails(p) =>
        /\ Keyed(c)
        /\ c.kind \in {"candidate", "diff"}
        /\ pc[p] \in Opening \cup {"execute", "dry_run", "recheck"} => c.kind = "candidate"
        /\ c.kind = "candidate" => rows[c.run] = {}
        /\ c.kind = "diff" /\ pc[p] \in Writing => rows[c.run] = {"candidate"}
        /\ pc[p] \in Opening => \A f \in Fields : e[f] = Null
        /\ pc[p] # "snapshot" => c.source.body \in Contents
        /\ pc[p] \notin Opening => e.source = c.source.body
        /\ pc[p] = "execute" => e.plan = Null
        /\ pc[p] \notin Opening \cup {"execute"} =>
              e.plan = c.request /\ c.made \in Contents /\ c.made = Edit[c.request][c.source.body]

(* What a caller that read the row, or holds the row it wrote, may rely on. *)
Saw(p) ==
    LET c == call[p]
    IN  pc[p] \in {"rehydrate", "replied", "effective", "look", "told"} =>
        /\ c.run \in Runs
        /\ state[c.run] # Null
        /\ c.view.evidence = [f \in Fields |-> c.view.evidence[f]]
        /\ \A f \in Fields :
              c.view.evidence[f] # Null => evidence[c.run][f] = c.view.evidence[f]

Answering(p) ==
    LET c == call[p]
        e == c.view.evidence
    IN  /\ pc[p] \in {"rehydrate", "replied"} =>
              /\ c.request \in Requests
              /\ c.key # Null => c.key \in Keys /\ keys[c.key] = [request |-> c.request, run |-> c.run]
              /\ c.view.state = "awaiting_approval" =>
                    /\ \A f \in Fields : e[f] # Null
                    /\ e.plan = c.request
                    /\ e.candidate = Edit[c.request][e.source]
        /\ pc[p] = "replied" => c.view.state = "awaiting_approval"

Telling(p) ==
    LET c == call[p]
    IN  pc[p] \in {"effective", "look", "told"} =>
        /\ c.kind \in {"candidate", "diff"}
        /\ DOMAIN c.found = {"candidate", "diff"}
        /\ \A kind \in {"candidate", "diff"} :
              c.found[kind] = "corrupt" => <<c.run, kind>> \in damaged
        /\ pc[p] = "told" /\ c.effective \in PreparedStates =>
              \A f \in Fields : c.view.evidence[f] # Null

Settled(p) ==
    LET c == call[p]
    IN  pc[p] = "errored" /\ ~c.repeat =>
        /\ c.run \in Runs
        /\ state[c.run] # Null
        /\ state[c.run] = "preparing" => c.lost

CallInv(p) == Owner(p) /\ Going(p) /\ Saw(p) /\ Answering(p) /\ Telling(p) /\ Settled(p)

Coherent ==
    /\ Shape
    /\ \A r \in Runs : RunInv(r)
    /\ \A p \in Procs : CallInv(p)
    /\ Alone

PipelineInv == Coherent /\ TypeOK

-----------------------------------------------------------------------------
(* What a step may do to the rest.                                          *)

(* A step of one call, as seen by the others.                               *)
OthersWait(p) == \A o \in Procs \ {p} : pc'[o] = pc[o] /\ call'[o] = call[o]

(* A run that a step leaves alone, or that somebody else ends.              *)
Quiet(r) ==
    /\ rows'[r] = rows[r] /\ evidence'[r] = evidence[r]
    /\ \/ state'[r] = state[r] /\ revision'[r] = revision[r]
       \/ state[r] # Null /\ state'[r] \in {"failed", "cancelled"}
    /\ \A kind \in Kinds : stored'[r][kind] = stored[r][kind] \/ <<r, kind>> \in damaged'

Grows ==
    /\ damaged \subseteq damaged'
    /\ \A k \in Keys :
          \/ keys'[k] = keys[k]
          \/ /\ keys[k] = Null /\ keys'[k].run \in Runs
             /\ state[keys'[k].run] = Null /\ state'[keys'[k].run] # Null

(* No step of the pipeline takes back a column or a run.                    *)
Moved ==
    \A r \in Runs :
        /\ state[r] # Null =>
              state'[r] # Null /\ (state'[r] = "preparing" => state[r] = "preparing")
        /\ \A f \in Fields : evidence[r][f] # Null => evidence'[r][f] = evidence[r][f]

LEMMA NullIsNoState == Null \notin States
  BY LedgerAssumption

LEMMA GoMoves ==
    ASSUME Shape, NEW p \in Procs, NEW step, NEW c, DOMAIN c = CallFields, Go(p, step, c)
    PROVE  /\ pc'[p] = step /\ call'[p] = c
           /\ OthersWait(p)
           /\ DOMAIN pc' = Procs /\ DOMAIN call' = Procs
           /\ \A o \in Procs : DOMAIN call'[o] = CallFields
  BY DEF Shape, Go, OthersWait

LEMMA RunStays ==
    ASSUME Shape, NEW r \in Runs, RunInv(r), Quiet(r), Grows
    PROVE  RunInv(r)'
<1>1. RowHolds(r)'
  BY DEF RunInv, RowHolds, Quiet, PreparedStates
<1>2. ArtifactsHold(r)'
  BY DEF Shape, RunInv, ArtifactsHold, Quiet, Grows
<1>3. Unborn(r)'
  <2>1. CASE state[r] = Null
    BY <2>1, NullIsNoState DEF RunInv, Unborn, Quiet, Grows
  <2>2. CASE state[r] # Null
    BY <2>2, NullIsNoState DEF Unborn, Quiet, States, Terminal
  <2> QED  BY <2>1, <2>2
<1>4. KeyHolds(r)'
  BY DEF RunInv, KeyHolds, Unborn, Quiet, Grows
<1> QED  BY <1>1, <1>2, <1>3, <1>4 DEF RunInv

LEMMA KeyStays ==
    ASSUME Grows, NEW k \in Keys, NEW q \in Requests, NEW r \in Runs,
           keys[k] = [request |-> q, run |-> r]
    PROVE  keys'[k] = keys[k]
  BY PipelineAssumption DEF Grows

(* What a waiting call holds stays true.                                    *)
LEMMA OwnerStays ==
    ASSUME Shape, NEW p \in Procs, pc'[p] = pc[p], call'[p] = call[p], Grows,
           Owner(p), Going(p), Owns(p) => Quiet(call[p].run)
    PROVE  Owner(p)' /\ Going(p)'
<1> DEFINE c == call[p]
<1>1. CASE Owns(p)
  <2>1. /\ c.run \in Runs /\ state[c.run] # Null /\ state'[c.run] # Null
        /\ rows'[c.run] = rows[c.run] /\ evidence'[c.run] = evidence[c.run]
    BY <1>1, NullIsNoState DEF Owner, Quiet, States, Terminal
  <2>2. Owner(p)'
    <3>1. c.kind = "failure_evidence" /\ state'[c.run] = "preparing" => c.v = revision'[c.run]
      BY <1>1 DEF Owner, Quiet
    <3>2. c.kind \in Kinds \/ ~(pc[p] \in {"reopen", "record"})
      BY <1>1 DEF Owner, Going, Fails, Kinds, Opening, Writing
    <3>3. pc[p] \in {"reopen", "record"} =>
              <<c.run, c.kind>> \in damaged' \/ stored'[c.run][c.kind] = BodyOf(c)
      BY <1>1, <3>2 DEF Owner, Quiet, Grows
    <3> QED  BY <1>1, <2>1, <3>1, <3>3 DEF Owner, Owns, BodyOf
  <2>3. Going(p)'
    <3>1. Keyed(call[p]) => Keyed(call[p])'
      BY <2>1, KeyStays DEF Keyed, Grows
    <3> QED  BY <1>1, <2>1, <3>1 DEF Going, Owns, Fails
  <2> QED  BY <2>2, <2>3
<1>2. CASE ~Owns(p)
  BY <1>2 DEF Owner, Going, Owns
<1> QED  BY <1>1, <1>2

LEMMA ReaderStays ==
    ASSUME Shape, NEW p \in Procs, pc'[p] = pc[p], call'[p] = call[p], Grows, Moved,
           Saw(p), Answering(p), Telling(p), Settled(p)
    PROVE  Saw(p)' /\ Answering(p)' /\ Telling(p)' /\ Settled(p)'
<1>1. Saw(p)'
  BY DEF Saw, Moved
<1>2. Answering(p)'
  BY KeyStays DEF Saw, Answering
<1>3. Telling(p)'
  BY DEF Telling, Grows
<1>4. Settled(p)'
  BY DEF Settled, Moved
<1> QED  BY <1>1, <1>2, <1>3, <1>4

(* A step of call p, which touches at most the run w: one it works on, or   *)
(* one that no call works on yet.                                           *)
LEMMA StepHolds ==
    ASSUME Coherent, Shape', Grows, Moved,
           NEW p \in Procs, OthersWait(p), CallInv(p)',
           NEW w,
           \A r \in Runs \ {w} : Quiet(r),
           w \in Runs => RunInv(w)' \/ Quiet(w),
           \/ Owns(p) /\ call[p].run = w
           \/ state[w] = Null
           \/ Quiet(w)
           \/ w \notin Runs,
           \/ ~Owns(p)'
           \/ Owns(p) /\ call'[p].run = call[p].run
           \/ state[call'[p].run] = Null
    PROVE  Coherent'
<1>1. \A r \in Runs : RunInv(r)'
  BY RunStays DEF Coherent
<1>2. ASSUME NEW o \in Procs \ {p}
      PROVE  CallInv(o)'
  <2>1. CallInv(o) /\ pc'[o] = pc[o] /\ call'[o] = call[o]
    BY <1>2 DEF Coherent, OthersWait
  <2>2. Owns(o) => Quiet(call[o].run)
    BY <2>1 DEF Coherent, Alone, CallInv, Owner
  <2> QED  BY <2>1, <2>2, OwnerStays, ReaderStays DEF CallInv, Coherent
<1>3. Alone'
  <2> SUFFICES ASSUME NEW a \in Procs, NEW b \in Procs,
                      Owns(a)', Owns(b)', call'[a].run = call'[b].run, a # b
               PROVE  FALSE
    BY DEF Alone
  <2>1. \A o \in Procs \ {p} :
           Owns(o)' => Owns(o) /\ call'[o].run = call[o].run /\ state[call[o].run] # Null
    BY DEF Coherent, OthersWait, Owns, CallInv, Owner
  <2>2. CASE a # p /\ b # p
    BY <2>1, <2>2 DEF Coherent, Alone
  <2>3. CASE a = p \/ b = p
    BY <2>1, <2>3 DEF Coherent, Alone
  <2> QED  BY <2>2, <2>3
<1> QED  BY <1>1, <1>2, <1>3 DEF Coherent

(* A step that leaves the rows, the files and the damage alone.             *)
LEMMA StillHolds ==
    ASSUME Coherent, Shape', UNCHANGED <<ledgerVars, stored, damaged>>,
           NEW p \in Procs, OthersWait(p), CallInv(p)',
           Owns(p)' => Owns(p) /\ call'[p].run = call[p].run
    PROVE  Coherent'
<1>1. Grows /\ Moved /\ \A r \in Runs : Quiet(r)
  BY DEF Grows, Moved, Quiet, ledgerVars
<1>2. PICK w : w = call[p].run
  OBVIOUS
<1> QED  BY <1>1, <1>2, StepHolds

(* A step of nobody's call.                                                 *)
LEMMA OutsideHolds ==
    ASSUME Coherent, Shape', Grows, Moved, UNCHANGED callVars, \A r \in Runs : Quiet(r)
    PROVE  Coherent'
<1>1. \A r \in Runs : RunInv(r)'
  BY RunStays DEF Coherent
<1>2. ASSUME NEW o \in Procs PROVE CallInv(o)'
  <2>1. CallInv(o) /\ pc'[o] = pc[o] /\ call'[o] = call[o]
    BY <1>2 DEF Coherent, callVars
  <2>2. Owns(o) => Quiet(call[o].run)
    BY <2>1 DEF CallInv, Owner
  <2> QED  BY <2>1, <2>2, OwnerStays, ReaderStays DEF CallInv, Coherent
<1>3. Alone'
  BY DEF Coherent, Alone, Owns, callVars
<1> QED  BY <1>1, <1>2, <1>3 DEF Coherent

LEMMA GoHolds ==
    ASSUME Coherent, UNCHANGED <<ledgerVars, stored, damaged>>,
           NEW p \in Procs, NEW step, NEW c, DOMAIN c = CallFields, Go(p, step, c),
           CallInv(p)',
           step \in Steps /\ ~c.repeat => Owns(p) /\ c.run = call[p].run
    PROVE  Coherent'
<1>1. Shape
  BY DEF Coherent
<1>2. /\ pc'[p] = step /\ call'[p] = c
      /\ OthersWait(p)
      /\ DOMAIN pc' = Procs /\ DOMAIN call' = Procs
      /\ \A o \in Procs : DOMAIN call'[o] = CallFields
  BY <1>1, GoMoves
<1>3. Shape'
  BY <1>1, <1>2 DEF Shape, ledgerVars
<1>4. Owns(p)' => Owns(p) /\ call'[p].run = call[p].run
  BY <1>2 DEF Owns
<1> QED  BY <1>2, <1>3, <1>4, StillHolds

-----------------------------------------------------------------------------
(* Errors.                                                                  *)

LEMMA HandledMoves ==
    ASSUME Shape, NEW p \in Procs, NEW lost, Handled(p, lost)
    PROVE  \E c, step :
              /\ DOMAIN c = CallFields /\ Go(p, step, c)
              /\ c.run = call[p].run /\ c.kind = "candidate" /\ c.repeat = call[p].repeat
              /\ \/ step = "errored" /\ call[p].repeat
                 \/ step = "errored" /\ ~call[p].repeat
                       /\ call[p].kind = "failure_evidence" /\ c.lost = lost
                 \/ step = "failing" /\ ~call[p].repeat
<1> DEFINE c == [NoCall EXCEPT !.run = call[p].run, !.v = call[p].v, !.repeat = call[p].repeat]
<1>1. /\ DOMAIN c = CallFields /\ c.run = call[p].run /\ c.kind = "candidate"
      /\ c.repeat = call[p].repeat
  BY DEF NoCall, CallFields
<1>2. CASE call[p].repeat
  BY <1>1, <1>2 DEF Handled
<1>3. CASE ~call[p].repeat /\ call[p].kind = "failure_evidence"
  <2> DEFINE d == [c EXCEPT !.lost = lost]
  <2>1. /\ DOMAIN d = CallFields /\ d.run = call[p].run /\ d.kind = "candidate"
        /\ d.repeat = call[p].repeat /\ d.lost = lost
    BY <1>1 DEF CallFields
  <2>2. Go(p, "errored", d)
    BY <1>1, <1>3 DEF Handled
  <2> QED  BY <1>3, <2>1, <2>2
<1>4. CASE ~call[p].repeat /\ call[p].kind # "failure_evidence"
  <2>1. Go(p, "failing", c)
    BY <1>1, <1>4 DEF Handled
  <2> QED  BY <1>1, <1>4, <2>1
<1> QED  BY <1>2, <1>3, <1>4

(* Where an error takes a call, it holds on to its run and no more.         *)
LEMMA ErrHolds ==
    ASSUME Coherent, NEW p \in Procs, pc[p] \in Steps, NEW lost, Handled(p, lost),
           Owns(p) =>
              /\ state'[call[p].run] # Null
              /\ "failure_evidence" \notin rows'[call[p].run]
              /\ call[p].kind = "failure_evidence" /\ state'[call[p].run] = "preparing" => lost
    PROVE  /\ CallInv(p)' /\ OthersWait(p)
           /\ DOMAIN pc' = Procs /\ DOMAIN call' = Procs
           /\ \A o \in Procs : DOMAIN call'[o] = CallFields
           /\ Owns(p)' => Owns(p) /\ call'[p].run = call[p].run
<1>1. Shape /\ CallInv(p)
  BY DEF Coherent
<1>2. PICK c, step :
         /\ DOMAIN c = CallFields /\ Go(p, step, c)
         /\ c.run = call[p].run /\ c.kind = "candidate" /\ c.repeat = call[p].repeat
         /\ \/ step = "errored" /\ call[p].repeat
            \/ step = "errored" /\ ~call[p].repeat
                  /\ call[p].kind = "failure_evidence" /\ c.lost = lost
            \/ step = "failing" /\ ~call[p].repeat
  BY <1>1, HandledMoves
<1>3. /\ pc'[p] = step /\ call'[p] = c
      /\ OthersWait(p)
      /\ DOMAIN pc' = Procs /\ DOMAIN call' = Procs
      /\ \A o \in Procs : DOMAIN call'[o] = CallFields
  BY <1>1, <1>2, GoMoves
<1>4. Owns(p)' => Owns(p) /\ call'[p].run = call[p].run
  BY <1>2, <1>3 DEF Owns
<1>5. ~call[p].repeat => Owns(p) /\ call[p].run \in Runs
  BY <1>1 DEF Owns, CallInv, Owner
<1>6. Owner(p)'
  BY <1>2, <1>3, <1>4, <1>5 DEF Owner, Owns, Steps, LedgerSteps
<1>7. Going(p)'
  BY <1>2, <1>3 DEF Going, Owns, Fails, Steps, LedgerSteps
<1>8. Saw(p)' /\ Answering(p)' /\ Telling(p)'
  BY <1>2, <1>3 DEF Saw, Answering, Telling
<1>9. Settled(p)'
  BY <1>2, <1>3, <1>5 DEF Settled
<1> QED  BY <1>3, <1>4, <1>6, <1>7, <1>8, <1>9 DEF CallInv

LEMMA ErrStill ==
    ASSUME Coherent, NEW p \in Procs, pc[p] \in Steps, NEW lost, Handled(p, lost),
           UNCHANGED <<ledgerVars, stored, damaged>>,
           call[p].kind = "failure_evidence" /\ state[call[p].run] = "preparing" => lost \/ ~Owns(p)
    PROVE  Coherent'
<1>1. /\ CallInv(p)' /\ OthersWait(p)
      /\ DOMAIN pc' = Procs /\ DOMAIN call' = Procs
      /\ \A o \in Procs : DOMAIN call'[o] = CallFields
      /\ Owns(p)' => Owns(p) /\ call'[p].run = call[p].run
  <2>1. Owns(p) => /\ state'[call[p].run] # Null
                   /\ "failure_evidence" \notin rows'[call[p].run]
                   /\ call[p].kind = "failure_evidence" /\ state'[call[p].run] = "preparing" => lost
    BY DEF Coherent, CallInv, Owner, ledgerVars
  <2> QED  BY <2>1, ErrHolds
<1>2. Shape'
  BY <1>1 DEF Coherent, Shape, ledgerVars
<1> QED  BY <1>1, <1>2, StillHolds

-----------------------------------------------------------------------------
(* The steps of a prepare that write nothing.                               *)

LEMMA RepeatHolds ==
    ASSUME Coherent, NEW p \in Procs, NEW k \in Keys, NEW q \in Requests, Repeat(p, k, q)
    PROVE  Coherent'
<1>1. /\ Shape /\ keys[k] # Null /\ keys[k].request = q
      /\ UNCHANGED <<ledgerVars, stored, damaged>>
  BY DEF Coherent, Repeat, storeVars, fileVars
<1> DEFINE r == keys[k].run
           c == [NoCall EXCEPT !.run = r, !.key = k, !.request = q,
                               !.repeat = TRUE, !.view = Row(r)]
<1>2. Go(p, "rehydrate", c)
  BY DEF Repeat
<1>3. /\ DOMAIN c = CallFields /\ c.run = r /\ c.key = k /\ c.request = q
      /\ c.repeat = TRUE /\ c.view = Row(r)
  BY DEF NoCall, CallFields
<1>4. r \in Runs /\ keys[k] = [request |-> q, run |-> r]
  BY <1>1 DEF Shape
<1> HIDE DEF c
<1>5. pc'[p] = "rehydrate" /\ call'[p] = c
  BY <1>1, <1>2, <1>3, GoMoves
<1>6. /\ state[r] # Null /\ c.view.state = state[r] /\ c.view.evidence = evidence[r]
      /\ RowHolds(r) /\ evidence[r]["plan"] \in {Null, q}
      /\ evidence[r] = [f \in Fields |-> evidence[r][f]]
  BY <1>1, <1>3, <1>4 DEF Coherent, RunInv, Unborn, KeyHolds, Row, Shape
<1>7. state[r] = "awaiting_approval" =>
         /\ \A f \in Fields : evidence[r][f] # Null
         /\ evidence[r].plan = q
         /\ evidence[r].candidate = Edit[q][evidence[r].source]
  BY <1>6 DEF RowHolds, PreparedStates, States, Fields
<1>8. Owner(p)' /\ Going(p)' /\ Telling(p)' /\ Settled(p)'
  BY <1>3, <1>5 DEF Owner, Going, Telling, Settled, Owns
<1>9. Saw(p)' /\ Answering(p)'
  BY <1>1, <1>3, <1>4, <1>5, <1>6, <1>7 DEF Saw, Answering, ledgerVars
<1> QED  BY <1>1, <1>2, <1>3, <1>8, <1>9, GoHolds DEF CallInv

LEMMA ConflictHolds ==
    ASSUME Coherent, NEW p \in Procs, NEW k \in Keys, NEW q \in Requests, Conflict(p, k, q)
    PROVE  Coherent'
<1> DEFINE c == [NoCall EXCEPT !.key = k, !.request = q, !.repeat = TRUE]
<1>1. Shape /\ Go(p, "errored", c) /\ UNCHANGED <<ledgerVars, stored, damaged>>
  BY DEF Coherent, Conflict, storeVars, fileVars
<1>2. DOMAIN c = CallFields /\ c.repeat = TRUE
  BY DEF NoCall, CallFields
<1> HIDE DEF c
<1>3. pc'[p] = "errored" /\ call'[p] = c
  BY <1>1, <1>2, GoMoves
<1>4. CallInv(p)'
  BY <1>2, <1>3 DEF CallInv, Owner, Going, Saw, Answering, Telling, Settled, Owns, Steps,
                    LedgerSteps
<1> QED  BY <1>1, <1>2, <1>4, GoHolds

LEMMA FinishHolds ==
    ASSUME Coherent, NEW p \in Procs, Finish(p)
    PROVE  Coherent'
<1>1. Shape /\ Go(p, "idle", NoCall) /\ UNCHANGED <<ledgerVars, stored, damaged>>
  BY DEF Coherent, Finish, storeVars, fileVars
<1>2. DOMAIN NoCall = CallFields
  BY DEF NoCall, CallFields
<1>3. pc'[p] = "idle" /\ call'[p] = NoCall
  BY <1>1, <1>2, GoMoves
<1>4. CallInv(p)'
  BY <1>3 DEF CallInv, Owner, Going, Saw, Answering, Telling, Settled, Owns, Steps, LedgerSteps
<1>5. "idle" \notin Steps
  BY DEF Steps, LedgerSteps
<1> QED  BY <1>1, <1>2, <1>4, <1>5, GoHolds

LEMMA CrashHolds ==
    ASSUME Coherent, NEW p \in Procs, Crash(p)
    PROVE  Coherent'
<1>1. Shape /\ Go(p, "idle", NoCall) /\ UNCHANGED <<ledgerVars, stored, damaged>>
  BY DEF Coherent, Crash, DropLocks, fileVars
<1>2. DOMAIN NoCall = CallFields
  BY DEF NoCall, CallFields
<1>3. pc'[p] = "idle" /\ call'[p] = NoCall
  BY <1>1, <1>2, GoMoves
<1>4. CallInv(p)'
  BY <1>3 DEF CallInv, Owner, Going, Saw, Answering, Telling, Settled, Owns, Steps, LedgerSteps
<1>5. "idle" \notin Steps
  BY DEF Steps, LedgerSteps
<1> QED  BY <1>1, <1>2, <1>4, <1>5, GoHolds

(* A step of a call that goes on: nothing it relies on has changed, so what *)
(* is left is what the next step relies on besides.                         *)
LEMMA OnwardHolds ==
    ASSUME Coherent, UNCHANGED <<ledgerVars, stored, damaged>>,
           NEW p \in Procs, NEW step, NEW c, Go(p, step, c), DOMAIN c = CallFields,
           Owns(p), ~Fails(p), step \in Steps \ {"rehydrate", "failing"},
           c.run = call[p].run, c.key = call[p].key, c.request = call[p].request,
           c.kind = call[p].kind, c.made = call[p].made, ~c.repeat,
           step \in Opening \cup {"execute", "dry_run", "recheck"} => c.kind = "candidate",
           c.kind = "diff" /\ step \in Writing => pc[p] \in Writing,
           step \in Opening => pc[p] \in Opening,
           step # "snapshot" => c.source.body \in Contents,
           step \notin Opening => pc[p] \notin Opening /\ c.source = call[p].source,
           step # "execute",
           step \notin Opening => pc[p] # "execute",
           step \in {"reopen", "record"} =>
              \/ <<c.run, c.kind>> \in damaged
              \/ stored[c.run][c.kind] = BodyOf(c)
    PROVE  Coherent'
<1>1. Shape /\ Owner(p) /\ Going(p) /\ Keyed(call[p])
  BY DEF Coherent, CallInv, Going
<1>2. pc'[p] = step /\ call'[p] = c
  BY <1>1, GoMoves
<1>3. Owner(p)'
  BY <1>1, <1>2 DEF Owner, Owns, Fails, ledgerVars, BodyOf, Going
<1>4. Keyed(call[p])'
  BY <1>1, <1>2 DEF Keyed, ledgerVars
<1>5. Going(p)'
  BY <1>1, <1>2, <1>4 DEF Going, Owns, Fails, ledgerVars
<1>6. Saw(p)' /\ Answering(p)' /\ Telling(p)' /\ Settled(p)'
  BY <1>2 DEF Saw, Answering, Telling, Settled, Steps, LedgerSteps
<1> QED  BY <1>3, <1>5, <1>6, GoHolds DEF CallInv

LEMMA SnapshotSourceHolds ==
    ASSUME Coherent, TypeOK, NEW p \in Procs, SnapshotSource(p)
    PROVE  Coherent'
<1> DEFINE c == [call[p] EXCEPT !.source = source]
<1>1. /\ Shape /\ Owner(p) /\ Going(p)
      /\ pc[p] = "snapshot" /\ Go(p, "observe", c) /\ UNCHANGED <<ledgerVars, stored, damaged>>
  BY DEF Coherent, CallInv, SnapshotSource, storeVars, fileVars
<1>2. Owns(p) /\ ~Fails(p)
  BY <1>1 DEF Owner, Owns, Fails, Steps, Writing
<1>3. /\ DOMAIN c = CallFields /\ c.source = source /\ c.run = call[p].run /\ c.key = call[p].key
      /\ c.request = call[p].request /\ c.kind = call[p].kind /\ c.made = call[p].made
      /\ c.repeat = call[p].repeat
  BY <1>1 DEF Shape, CallFields
<1>4. source.body \in Contents
  BY DEF TypeOK
<1> HIDE DEF c
<1> QED  BY <1>1, <1>2, <1>3, <1>4, OnwardHolds
         DEF Going, Owns, Steps, Opening, Writing

LEMMA ObserveDestinationHolds ==
    ASSUME Coherent, NEW p \in Procs, ObserveDestination(p)
    PROVE  Coherent'
<1> DEFINE c == [call[p] EXCEPT !.prior = destination]
<1>1. /\ Shape /\ Owner(p) /\ Going(p)
      /\ pc[p] = "observe" /\ Go(p, "inspect", c) /\ UNCHANGED <<ledgerVars, stored, damaged>>
  BY DEF Coherent, CallInv, ObserveDestination, storeVars, fileVars
<1>2. Owns(p) /\ ~Fails(p)
  BY <1>1 DEF Owner, Owns, Fails, Steps, Writing
<1>3. /\ DOMAIN c = CallFields /\ c.source = call[p].source /\ c.run = call[p].run
      /\ c.key = call[p].key /\ c.request = call[p].request /\ c.kind = call[p].kind
      /\ c.made = call[p].made /\ c.repeat = call[p].repeat
  BY <1>1 DEF Shape, CallFields
<1> HIDE DEF c
<1> QED  BY <1>1, <1>2, <1>3, OnwardHolds
         DEF Going, Owns, Steps, LedgerSteps, Opening, Writing

(* The three looks at the files, taken again.                               *)
LEMMA RecheckHolds ==
    ASSUME Coherent, NEW p \in Procs,
           NEW from \in {"recheck", "match_source", "match_destination"}, pc[p] = from,
           NEW step \in {"write", "match_destination", "preview"},
           from = "recheck" <=> step = "write",
           Go(p, step, call[p]) \/ Err(p),
           UNCHANGED <<ledgerVars, stored, damaged>>
    PROVE  Coherent'
<1>1. Shape /\ Owner(p) /\ Going(p) /\ DOMAIN call[p] = CallFields
  BY DEF Coherent, CallInv, Shape
<1>2. Owns(p) /\ ~Fails(p)
  BY <1>1 DEF Owner, Owns, Fails, Steps, Writing
<1>3. CASE Err(p)
  BY <1>2, <1>3, ErrStill DEF Err, Owns, Fails
<1>4. CASE Go(p, step, call[p])
  BY <1>1, <1>2, <1>4, OnwardHolds
  DEF Going, Owns, Steps, LedgerSteps, Opening, Writing
<1> QED  BY <1>3, <1>4

(* The same for a call that is writing its failure evidence.                *)
LEMMA FailureGoesOn ==
    ASSUME Coherent, UNCHANGED <<ledgerVars, stored, damaged>>,
           NEW p \in Procs, NEW step \in Writing, Go(p, step, call[p]),
           Owns(p), call[p].kind = "failure_evidence",
           step \in {"reopen", "record"} =>
              \/ <<call[p].run, call[p].kind>> \in damaged
              \/ stored[call[p].run][call[p].kind] = BodyOf(call[p])
    PROVE  Coherent'
<1>1. Shape /\ Owner(p) /\ DOMAIN call[p] = CallFields
  BY DEF Coherent, CallInv, Shape
<1>2. pc'[p] = step /\ call'[p] = call[p]
  BY <1>1, GoMoves
<1>3. Owner(p)'
  BY <1>1, <1>2 DEF Owner, Owns, ledgerVars, BodyOf, Writing
<1>4. Going(p)'
  BY <1>2 DEF Going, Fails
<1>5. Saw(p)' /\ Answering(p)' /\ Telling(p)' /\ Settled(p)'
  BY <1>2 DEF Saw, Answering, Telling, Settled, Writing
<1> QED  BY <1>1, <1>3, <1>4, <1>5, GoHolds DEF CallInv

LEMMA ReopenHolds ==
    ASSUME Coherent, NEW p \in Procs, Reopen(p)
    PROVE  Coherent'
<1> DEFINE c == call[p]
<1>1. /\ Shape /\ Owner(p) /\ Going(p) /\ DOMAIN c = CallFields /\ pc[p] = "reopen"
      /\ UNCHANGED <<ledgerVars, stored, damaged>>
  BY DEF Coherent, CallInv, Shape, Reopen, storeVars, fileVars
<1>2. Owns(p)
  BY <1>1 DEF Owner, Owns, Steps
<1>3. CASE Err(p)
  BY <1>1, <1>2, <1>3, ErrStill DEF Err, Owns
<1>4. CASE /\ stored[c.run][c.kind] = BodyOf(c)
           /\ Go(p, "record", c)
  <2>1. CASE c.kind = "failure_evidence"
    BY <1>1, <1>2, <1>4, <2>1, FailureGoesOn DEF Writing
  <2>2. CASE c.kind # "failure_evidence"
    BY <1>1, <1>2, <1>4, <2>2, OnwardHolds
    DEF Going, Owns, Fails, Steps, LedgerSteps, Opening, Writing
  <2> QED  BY <2>1, <2>2
<1> QED  BY <1>3, <1>4 DEF Reopen, Readable

LEMMA RehydrateHolds ==
    ASSUME Coherent, NEW p \in Procs, Rehydrate(p)
    PROVE  Coherent'
<1> DEFINE c == call[p]
<1>1. /\ Shape /\ CallInv(p) /\ DOMAIN c = CallFields /\ pc[p] = "rehydrate"
      /\ UNCHANGED <<ledgerVars, stored, damaged>>
  BY DEF Coherent, Shape, Rehydrate, storeVars, fileVars
<1>2. CASE Err(p)
  BY <1>1, <1>2, ErrStill DEF Err, CallInv, Owner, Writing, Steps
<1>3. CASE c.view.state = "awaiting_approval" /\ Go(p, "replied", c)
  <2>1. pc'[p] = "replied" /\ call'[p] = c
    BY <1>1, <1>3, GoMoves
  <2>2. Owner(p)' /\ Going(p)' /\ Telling(p)' /\ Settled(p)'
    BY <2>1 DEF Owner, Going, Telling, Settled, Owns, Steps, LedgerSteps
  <2>3. Saw(p)' /\ Answering(p)'
    BY <1>1, <1>3, <2>1 DEF CallInv, Saw, Answering, ledgerVars
  <2> QED  BY <1>1, <1>3, <2>2, <2>3, GoHolds DEF CallInv, Steps, LedgerSteps
<1> QED  BY <1>2, <1>3 DEF Rehydrate, Complete

LEMMA RefusedHolds ==
    ASSUME Coherent, NEW p \in Procs, Refused(p)
    PROVE  Coherent'
<1>1. /\ Owner(p) /\ pc[p] \in LedgerSteps /\ Handled(p, FALSE)
      /\ <<state[call[p].run], revision[call[p].run]>> # <<"preparing", call[p].v>>
      /\ UNCHANGED <<ledgerVars, stored, damaged>>
  BY DEF Coherent, CallInv, Refused, storeVars, fileVars
<1> QED  BY <1>1, ErrStill DEF Owner, Steps

LEMMA StumbleHolds ==
    ASSUME Coherent, NEW p \in Procs, Stumble(p)
    PROVE  Coherent'
  BY ErrStill DEF Stumble, Err, storeVars, fileVars

LEMMA FailingHolds ==
    ASSUME Coherent, NEW p \in Procs, Failing(p)
    PROVE  Coherent'
<1> DEFINE c == call[p]
           d == [c EXCEPT !.kind = "failure_evidence", !.v = revision[c.run]]
<1>1. /\ Shape /\ Owner(p) /\ DOMAIN c = CallFields /\ pc[p] = "failing"
      /\ UNCHANGED <<ledgerVars, stored, damaged>>
  BY DEF Coherent, CallInv, Shape, Failing, storeVars, fileVars
<1>2. Owns(p)
  BY <1>1 DEF Owner, Owns, Steps
<1>3. CASE state[c.run] = "preparing" /\ Go(p, "write", d)
  <2>1. /\ DOMAIN d = CallFields /\ d.kind = "failure_evidence" /\ d.v = revision[c.run]
        /\ d.run = c.run /\ d.repeat = c.repeat
    BY <1>1 DEF CallFields
  <2> HIDE DEF d
  <2>2. pc'[p] = "write" /\ call'[p] = d
    BY <1>1, <1>3, <2>1, GoMoves
  <2>3. Owner(p)'
    BY <1>1, <1>2, <2>1, <2>2 DEF Owner, Owns, Writing, ledgerVars
  <2>4. Going(p)'
    BY <2>1, <2>2 DEF Going, Fails
  <2>5. Saw(p)' /\ Answering(p)' /\ Telling(p)' /\ Settled(p)'
    BY <2>2 DEF Saw, Answering, Telling, Settled
  <2> QED  BY <1>1, <1>2, <1>3, <2>1, <2>3, <2>4, <2>5, GoHolds DEF CallInv
<1>4. CASE state[c.run] # "preparing" /\ Go(p, "errored", c)
  <2>1. pc'[p] = "errored" /\ call'[p] = c
    BY <1>1, <1>4, GoMoves
  <2>2. Owner(p)' /\ Going(p)' /\ Saw(p)' /\ Answering(p)' /\ Telling(p)'
    BY <2>1 DEF Owner, Going, Saw, Answering, Telling, Owns, Steps, LedgerSteps
  <2>3. Settled(p)'
    BY <1>1, <1>2, <1>4, <2>1 DEF Settled, Owner, ledgerVars
  <2> QED  BY <1>1, <1>4, <2>2, <2>3, GoHolds DEF CallInv, Steps, LedgerSteps
<1> QED  BY <1>3, <1>4 DEF Failing

-----------------------------------------------------------------------------
(* The status query.                                                        *)

LEMMA ReadRowHolds ==
    ASSUME Coherent, NEW p \in Procs, NEW r \in Runs, ReadRow(p, r)
    PROVE  Coherent'
<1> DEFINE c == [NoCall EXCEPT !.run = r, !.view = Row(r)]
<1>1. /\ Shape /\ state[r] # Null /\ Go(p, "effective", c)
      /\ UNCHANGED <<ledgerVars, stored, damaged>>
  BY DEF Coherent, ReadRow, storeVars, fileVars
<1>2. /\ DOMAIN c = CallFields /\ c.run = r /\ c.view = Row(r) /\ c.kind = "candidate"
      /\ c.found = [kind \in {"candidate", "diff"} |-> "unread"]
  BY DEF NoCall, CallFields
<1> HIDE DEF c
<1>3. pc'[p] = "effective" /\ call'[p] = c
  BY <1>1, <1>2, GoMoves
<1>4. c.view.evidence = evidence[r] /\ evidence[r] = [f \in Fields |-> evidence[r][f]]
  BY <1>1, <1>2 DEF Row, Shape
<1>5. Owner(p)' /\ Going(p)' /\ Answering(p)' /\ Settled(p)'
  BY <1>3 DEF Owner, Going, Answering, Settled, Owns, Steps, LedgerSteps
<1>6. Saw(p)'
  BY <1>1, <1>2, <1>3, <1>4 DEF Saw, ledgerVars
<1>7. Telling(p)'
  BY <1>2, <1>3 DEF Telling
<1> QED  BY <1>1, <1>2, <1>5, <1>6, <1>7, GoHolds DEF CallInv, Steps, LedgerSteps

LEMMA ReadEffectiveHolds ==
    ASSUME Coherent, NEW p \in Procs, ReadEffective(p)
    PROVE  Coherent'
<1> DEFINE c == [call[p] EXCEPT !.effective = EffectiveState(call[p].run)]
<1>1. /\ Shape /\ CallInv(p) /\ pc[p] = "effective" /\ Go(p, "look", c)
      /\ UNCHANGED <<ledgerVars, stored, damaged>>
  BY DEF Coherent, ReadEffective, storeVars, fileVars
<1>2. /\ DOMAIN c = CallFields /\ c.run = call[p].run /\ c.view = call[p].view
      /\ c.kind = call[p].kind /\ c.found = call[p].found
  BY <1>1 DEF Shape, CallFields
<1> HIDE DEF c
<1>3. pc'[p] = "look" /\ call'[p] = c
  BY <1>1, <1>2, GoMoves
<1>4. Owner(p)' /\ Going(p)' /\ Answering(p)' /\ Settled(p)'
  BY <1>3 DEF Owner, Going, Answering, Settled, Owns, Steps, LedgerSteps
<1>5. Saw(p)'
  BY <1>1, <1>2, <1>3 DEF CallInv, Saw, ledgerVars
<1>6. Telling(p)'
  BY <1>1, <1>2, <1>3 DEF CallInv, Telling
<1> QED  BY <1>1, <1>2, <1>4, <1>5, <1>6, GoHolds DEF CallInv, Steps, LedgerSteps

(* What a query says of an artifact, if that is true, leaves it sound.      *)
LEMMA AnswerHolds ==
    ASSUME Coherent, NEW p \in Procs, pc[p] = "look", NEW found, Answer(p, found),
           found = "corrupt" => <<call[p].run, call[p].kind>> \in damaged,
           UNCHANGED <<ledgerVars, stored, damaged>>
    PROVE  Coherent'
<1> DEFINE c == [call[p] EXCEPT !.found[call[p].kind] = found]
           d == [c EXCEPT !.kind = "diff"]
<1>1. Shape /\ CallInv(p) /\ DOMAIN call[p] = CallFields
  BY DEF Coherent, Shape
<1>2. /\ DOMAIN c = CallFields /\ c.run = call[p].run /\ c.view = call[p].view
      /\ c.kind = call[p].kind /\ c.effective = call[p].effective
      /\ c.found = [call[p].found EXCEPT ![call[p].kind] = found]
  BY <1>1 DEF CallFields
<1>3. /\ DOMAIN d = CallFields /\ d.run = call[p].run /\ d.view = call[p].view
      /\ d.kind = "diff" /\ d.found = c.found
  BY <1>2 DEF CallFields
<1>4. \/ call[p].kind = "candidate" /\ Go(p, "look", d)
      \/ call[p].kind # "candidate" /\ Go(p, "told", c) /\ Consistent(c)
      \/ call[p].kind # "candidate" /\ Go(p, "accused", c)
  BY <1>2 DEF Answer
<1> HIDE DEF c, d
<1>5. PICK e, step :
         /\ DOMAIN e = CallFields /\ e.run = call[p].run /\ e.view = call[p].view
         /\ e.kind \in {call[p].kind, "diff"} /\ e.found = c.found
         /\ Go(p, step, e) /\ step \in {"look", "told", "accused"}
         /\ step = "told" => Consistent(e)
  BY <1>2, <1>3, <1>4
<1>6. pc'[p] = step /\ call'[p] = e
  BY <1>1, <1>5, GoMoves
<1>7. Owner(p)' /\ Going(p)' /\ Answering(p)' /\ Settled(p)'
  BY <1>5, <1>6 DEF Owner, Going, Answering, Settled, Owns, Steps, LedgerSteps
<1>8. Saw(p)'
  BY <1>1, <1>5, <1>6 DEF CallInv, Saw, ledgerVars
<1>9. Telling(p)'
  BY <1>1, <1>2, <1>5, <1>6 DEF CallInv, Telling, Consistent
<1> QED  BY <1>1, <1>5, <1>7, <1>8, <1>9, GoHolds DEF CallInv, Steps, LedgerSteps

LEMMA LookHolds ==
    ASSUME Coherent, NEW p \in Procs, Look(p)
    PROVE  Coherent'
<1> DEFINE c == call[p]
           digest == c.view.evidence[c.kind]
<1>1. /\ Shape /\ CallInv(p) /\ DOMAIN c = CallFields /\ pc[p] = "look"
      /\ UNCHANGED <<ledgerVars, stored, damaged>>
  BY DEF Coherent, Shape, Look, storeVars, fileVars
<1>2. CASE Go(p, "accused", c)
  <2>1. pc'[p] = "accused"
    BY <1>1, <1>2, GoMoves
  <2>2. CallInv(p)'
    BY <2>1 DEF CallInv, Owner, Going, Saw, Answering, Telling, Settled, Owns, Steps,
                LedgerSteps
  <2> QED  BY <1>1, <1>2, <2>2, GoHolds DEF Steps, LedgerSteps
<1>3. CASE Answer(p, "absent")
  BY <1>1, <1>3, AnswerHolds
<1>4. CASE Answer(p, "present")
  BY <1>1, <1>4, AnswerHolds
<1>5. CASE /\ digest # Null /\ Unreadable(c.run, c.kind, evidence[c.run][c.kind])
           /\ Answer(p, "corrupt")
  <2>1. /\ c.run \in Runs /\ c.kind \in {"candidate", "diff"}
        /\ evidence[c.run][c.kind] # Null
        /\ stored[c.run][c.kind] # evidence[c.run][c.kind]
    BY <1>1, <1>5 DEF CallInv, Saw, Telling, Unreadable, Fields
  <2>2. c.kind \in rows[c.run]
    BY <2>1 DEF Coherent, RunInv, RowHolds
  <2>3. <<c.run, c.kind>> \in damaged
    BY <2>1, <2>2 DEF Coherent, RunInv, ArtifactsHold
  <2> QED  BY <1>1, <1>5, <2>3, AnswerHolds
<1> QED  BY <1>2, <1>3, <1>4, <1>5 DEF Look

-----------------------------------------------------------------------------
(* The artifact files.                                                      *)

(* What a call writes has no row yet.                                       *)
LEMMA KindIsNew ==
    ASSUME Coherent, NEW p \in Procs, Owns(p), pc[p] \in Writing
    PROVE  /\ call[p].run \in Runs
           /\ call[p].kind \in Kinds
           /\ call[p].kind \notin rows[call[p].run]
<1>1. Owner(p) /\ Going(p)
  BY DEF Coherent, CallInv
<1>2. CASE call[p].kind = "failure_evidence"
  BY <1>1, <1>2 DEF Owner, Kinds
<1>3. CASE call[p].kind # "failure_evidence"
  BY <1>1, <1>3 DEF Owner, Going, Fails, Writing, Kinds
<1> QED  BY <1>2, <1>3

LEMMA StoreFrame ==
    ASSUME Coherent, UNCHANGED <<ledgerVars, damaged>>,
           NEW w \in Runs, NEW kind \in Kinds, kind \notin rows[w], NEW body,
           stored' \in {stored, [stored EXCEPT ![w][kind] = body]}
    PROVE  /\ Grows /\ Moved
           /\ \A r \in Runs \ {w} : Quiet(r)
           /\ RunInv(w)'
           /\ DOMAIN stored' = Runs /\ \A r \in Runs : DOMAIN stored'[r] = Kinds
<1>1. Grows /\ Moved
  BY DEF Grows, Moved, ledgerVars
<1>2. DOMAIN stored = Runs /\ \A r \in Runs : DOMAIN stored[r] = Kinds
  BY DEF Coherent, Shape
<1>3. /\ DOMAIN stored' = Runs
      /\ \A r \in Runs : DOMAIN stored'[r] = Kinds
      /\ \A r \in Runs, k \in Kinds : r # w \/ k # kind => stored'[r][k] = stored[r][k]
  BY <1>2
<1>4. \A r \in Runs \ {w} : Quiet(r)
  BY <1>3 DEF Quiet, ledgerVars
<1>5. RunInv(w)
  BY DEF Coherent
<1>6. ArtifactsHold(w)'
  BY <1>3, <1>5 DEF RunInv, ArtifactsHold, Coherent, Shape, ledgerVars
<1>7. RowHolds(w)' /\ Unborn(w)' /\ KeyHolds(w)'
  BY <1>5 DEF RunInv, RowHolds, Unborn, KeyHolds, ledgerVars
<1> QED  BY <1>1, <1>3, <1>4, <1>6, <1>7 DEF RunInv

LEMMA StoreHolds ==
    ASSUME Coherent, UNCHANGED <<ledgerVars, damaged>>,
           NEW p \in Procs, Owns(p), pc[p] \in {"write", "confirm"},
           NEW body,
           stored' \in {stored, [stored EXCEPT ![call[p].run][call[p].kind] = body]},
           \/ Go(p, "confirm", call[p])
           \/ /\ Go(p, "reopen", call[p])
              /\ stored'[call[p].run][call[p].kind] = BodyOf(call[p])
           \/ Err(p)
    PROVE  Coherent'
<1> DEFINE c == call[p]
<1>1. /\ Shape /\ Owner(p) /\ Going(p) /\ DOMAIN c = CallFields
      /\ c.run \in Runs /\ c.kind \in Kinds /\ c.kind \notin rows[c.run]
  BY KindIsNew DEF Coherent, CallInv, Shape, Writing
<1>w. PICK w : w = c.run
  OBVIOUS
<1>2. /\ Grows /\ Moved
      /\ \A r \in Runs \ {w} : Quiet(r)
      /\ RunInv(w)'
      /\ DOMAIN stored' = Runs /\ \A r \in Runs : DOMAIN stored'[r] = Kinds
  BY <1>1, <1>w, StoreFrame
<1>3. ASSUME NEW step \in {"confirm", "reopen"}, Go(p, step, c),
             step = "reopen" => stored'[c.run][c.kind] = BodyOf(c)
      PROVE  Coherent'
  <2>1. /\ pc'[p] = step /\ call'[p] = call[p]
        /\ OthersWait(p)
        /\ DOMAIN pc' = Procs /\ DOMAIN call' = Procs
        /\ \A o \in Procs : DOMAIN call'[o] = CallFields
    BY <1>1, <1>3, GoMoves
  <2>2. Shape'
    BY <1>1, <1>2, <2>1 DEF Shape, ledgerVars
  <2>3. Owner(p)'
    BY <1>1, <1>3, <2>1 DEF Owner, Owns, ledgerVars, BodyOf, Writing
  <2>4. Going(p)'
    <3>1. Keyed(call[p]) => Keyed(call[p])'
      BY <2>1 DEF Keyed, ledgerVars
    <3> QED  BY <1>1, <1>3, <2>1, <3>1
             DEF Going, Owns, Fails, Opening, Writing, ledgerVars
  <2>5. Saw(p)' /\ Answering(p)' /\ Telling(p)' /\ Settled(p)'
    BY <1>3, <2>1 DEF Saw, Answering, Telling, Settled
  <2>6. Owns(p)' => Owns(p) /\ call'[p].run = call[p].run
    BY <2>1
  <2> QED  BY <1>w, <1>1, <1>2, <2>1, <2>2, <2>3, <2>4, <2>5, <2>6, StepHolds DEF CallInv
<1>4. CASE Err(p)
  <2>1. /\ CallInv(p)' /\ OthersWait(p)
        /\ DOMAIN pc' = Procs /\ DOMAIN call' = Procs
        /\ \A o \in Procs : DOMAIN call'[o] = CallFields
        /\ Owns(p)' => Owns(p) /\ call'[p].run = call[p].run
    BY <1>1, <1>4, ErrHolds DEF Err, Owner, Owns, ledgerVars
  <2>2. Shape'
    BY <1>1, <1>2, <2>1 DEF Shape, ledgerVars
  <2> QED  BY <1>w, <1>1, <1>2, <2>1, <2>2, StepHolds
<1> QED  BY <1>3, <1>4

LEMMA WriteHolds ==
    ASSUME Coherent, NEW p \in Procs, Write(p)
    PROVE  Coherent'
<1> DEFINE c == call[p]
<1>1. Owns(p) /\ pc[p] = "write" /\ UNCHANGED <<ledgerVars, damaged>>
  BY DEF Coherent, CallInv, Owner, Owns, Write, fileVars, Steps
<1>2. CASE Publish(p, c.run, c.kind, BodyOf(c)) /\ Go(p, "confirm", c)
  <2>1. PICK body : body = BodyOf(c)
    OBVIOUS
  <2>2. stored' \in {stored, [stored EXCEPT ![call[p].run][call[p].kind] = body]}
    BY <1>2, <2>1 DEF Publish
  <2> QED  BY <1>1, <1>2, <2>2, StoreHolds
<1>3. CASE Err(p) /\ UNCHANGED storeVars
  BY <1>1, <1>3, StoreHolds DEF storeVars
<1> QED  BY <1>2, <1>3 DEF Write

LEMMA ConfirmWriteHolds ==
    ASSUME Coherent, NEW p \in Procs, ConfirmWrite(p)
    PROVE  Coherent'
<1> DEFINE c == call[p]
<1>1. Owns(p) /\ pc[p] = "confirm" /\ UNCHANGED <<ledgerVars, damaged>>
  BY DEF Coherent, CallInv, Owner, Owns, ConfirmWrite, fileVars, Steps
<1>2. CASE Confirm(p, c.run, c.kind, BodyOf(c)) /\ Go(p, "reopen", c)
  BY <1>1, <1>2, StoreHolds DEF Confirm
<1>3. CASE Withdraw(p, c.run, c.kind) /\ Err(p)
  BY <1>1, <1>3, StoreHolds DEF Withdraw
<1> QED  BY <1>2, <1>3 DEF ConfirmWrite

-----------------------------------------------------------------------------
(* The steps of a prepare that the ledger takes.                            *)

(* A mutation of the row of run w.                                          *)
Only(w) ==
    /\ DOMAIN state' = Runs /\ DOMAIN revision' = Runs /\ DOMAIN rows' = Runs
    /\ DOMAIN evidence' = Runs
    /\ \A r \in Runs \ {w} :
          /\ state'[r] = state[r] /\ revision'[r] = revision[r]
          /\ rows'[r] = rows[r] /\ evidence'[r] = evidence[r]
    /\ evidence'[w] = [f \in Fields |-> evidence'[w][f]]
    /\ rows'[w] \subseteq Kinds
    /\ \A f \in Fields : evidence[w][f] # Null => evidence'[w][f] = evidence[w][f]
    /\ state[w] = "preparing" /\ state'[w] \in {"preparing", "awaiting_approval", "failed"}
    /\ UNCHANGED <<keys, stored, damaged>>

LEMMA OnlyFrames ==
    ASSUME Coherent, NEW w \in Runs, Only(w)
    PROVE  Grows /\ Moved /\ \A r \in Runs \ {w} : Quiet(r)
<1>1. Grows /\ Moved
  BY NullIsNoState DEF Only, Grows, Moved, States, Terminal
<1>2. \A r \in Runs \ {w} : Quiet(r)
  BY DEF Only, Quiet
<1> QED  BY <1>1, <1>2

LEMMA OwnGoes ==
    ASSUME Coherent, NEW p \in Procs, Owns(p), NEW w \in Runs, w = call[p].run,
           Only(w), RunInv(w)',
           NEW step, NEW c, DOMAIN c = CallFields, c.run = w, Go(p, step, c),
           CallInv(p)'
    PROVE  Coherent'
<1>1. Shape
  BY DEF Coherent
<1>2. /\ pc'[p] = step /\ call'[p] = c
      /\ OthersWait(p)
      /\ DOMAIN pc' = Procs /\ DOMAIN call' = Procs
      /\ \A o \in Procs : DOMAIN call'[o] = CallFields
  BY <1>1, GoMoves
<1>3. Shape'
  BY <1>1, <1>2 DEF Shape, Only
<1> QED  BY <1>2, <1>3, OnlyFrames, StepHolds

LEMMA OwnErrs ==
    ASSUME Coherent, NEW p \in Procs, Owns(p), NEW w \in Runs, w = call[p].run,
           Only(w), RunInv(w)', "failure_evidence" \notin rows'[w],
           call[p].kind # "failure_evidence", Err(p)
    PROVE  Coherent'
<1>1. Shape
  BY DEF Coherent
<1>2. state'[w] # Null
  BY NullIsNoState DEF Only, States, Terminal
<1>3. /\ CallInv(p)' /\ OthersWait(p)
      /\ DOMAIN pc' = Procs /\ DOMAIN call' = Procs
      /\ \A o \in Procs : DOMAIN call'[o] = CallFields
      /\ Owns(p)' => Owns(p) /\ call'[p].run = call[p].run
  BY <1>2, ErrHolds DEF Err, Owns
<1>4. Shape'
  BY <1>1, <1>3 DEF Shape, Only
<1> QED  BY <1>3, <1>4, OnlyFrames, StepHolds

LEMMA Advances ==
    ASSUME Shape, NEW w \in Runs, NEW v, NEW to, NEW type, Cas(w, "preparing", v),
           Advance(w, to, type)
    PROVE  /\ DOMAIN state' = Runs /\ DOMAIN revision' = Runs
           /\ \A r \in Runs \ {w} : state'[r] = state[r] /\ revision'[r] = revision[r]
           /\ state[w] = "preparing" /\ state'[w] = to
  BY DEF Shape, Cas, Advance

LEMMA Appends ==
    ASSUME Coherent, NEW w \in Runs, NEW v, NEW type, NEW fs, NEW x,
           AppendEvidence(w, "preparing", v, type, fs, x),
           UNCHANGED <<stored, damaged>>,
           \A f \in Fields \cap fs : evidence[w][f] = Null
    PROVE  /\ Only(w) /\ rows' = rows /\ state'[w] = "preparing"
           /\ \A f \in Fields : evidence'[w][f] = IF f \in fs THEN x[f] ELSE evidence[w][f]
<1>1. Shape
  BY DEF Coherent
<1>2. /\ DOMAIN state' = Runs /\ DOMAIN revision' = Runs
      /\ \A r \in Runs \ {w} : state'[r] = state[r] /\ revision'[r] = revision[r]
      /\ state[w] = "preparing" /\ state'[w] = "preparing"
  BY <1>1, Advances DEF AppendEvidence
<1>3. /\ DOMAIN evidence' = Runs
      /\ \A r \in Runs \ {w} : evidence'[r] = evidence[r]
      /\ evidence'[w] = [f \in Fields |-> IF f \in fs THEN x[f] ELSE evidence[w][f]]
  BY <1>1 DEF Shape, AppendEvidence
<1>4. evidence'[w] = [f \in Fields |-> evidence'[w][f]]
  BY <1>3
<1> QED  BY <1>1, <1>2, <1>3, <1>4 DEF Only, Shape, AppendEvidence

LEMMA LoggedMoves ==
    ASSUME NEW p, NEW step, NEW c, DOMAIN c = CallFields, Logged(p, step, c)
    PROVE  \/ Err(p)
           \/ \E d : /\ DOMAIN d = CallFields /\ Go(p, step, d)
                     /\ d.run = c.run /\ d.key = c.key /\ d.request = c.request
                     /\ d.repeat = c.repeat /\ d.source = c.source /\ d.made = c.made
                     /\ d.kind = c.kind /\ d.view = c.view
<1> DEFINE d == [c EXCEPT !.v = @ + 1]
<1>1. /\ DOMAIN d = CallFields
      /\ d.run = c.run /\ d.key = c.key /\ d.request = c.request
      /\ d.repeat = c.repeat /\ d.source = c.source /\ d.made = c.made
      /\ d.kind = c.kind /\ d.view = c.view
  BY DEF CallFields
<1>2. Err(p) \/ Go(p, step, d)
  BY DEF Logged
<1> HIDE DEF d
<1> QED  BY <1>1, <1>2

(* What a call that has met no error relies on, once the row has moved.     *)
LEMMA GoingOn ==
    ASSUME Coherent, NEW p \in Procs, Owns(p), ~Fails(p),
           NEW w \in Runs, w = call[p].run, Only(w), RunInv(w)',
           NEW step \in {"execute", "dry_run", "recheck", "write", "match_source", "await",
                         "failing"},
           NEW c, DOMAIN c = CallFields, Go(p, step, c), ~c.repeat,
           c.run = w, c.key = call[p].key, c.request = call[p].request,
           c.kind \in {"candidate", "diff"},
           "failure_evidence" \notin rows'[w],
           step # "failing" =>
              /\ step \in {"execute", "dry_run", "recheck"} => c.kind = "candidate"
              /\ c.kind = "candidate" => rows'[w] = {}
              /\ c.kind = "diff" /\ step \in Writing => rows'[w] = {"candidate"}
              /\ c.source.body \in Contents
              /\ evidence'[w].source = c.source.body
              /\ step = "execute" => evidence'[w].plan = Null
              /\ step # "execute" =>
                    /\ evidence'[w].plan = c.request
                    /\ c.made \in Contents /\ c.made = Edit[c.request][c.source.body]
    PROVE  Coherent'
<1>1. Shape /\ Owner(p) /\ Going(p) /\ Keyed(call[p])
  BY DEF Coherent, CallInv, Going
<1>2. pc'[p] = step /\ call'[p] = c
  BY <1>1, GoMoves
<1>3. state'[w] # Null
  BY NullIsNoState DEF Only, States, Terminal
<1>4. Owner(p)'
  BY <1>1, <1>2, <1>3 DEF Owner, Owns
<1>5. Going(p)'
  <2>1. Keyed(c)'
    BY <1>1 DEF Keyed, Only
  <2>2. CASE step = "failing"
    BY <1>2, <2>2 DEF Going, Fails
  <2>3. CASE step # "failing"
    <3>1. step \notin Opening \cup {"failing", "snapshot"}
      BY <2>3 DEF Opening
    <3> QED  BY <1>2, <2>1, <3>1 DEF Going, Keyed
  <2> QED  BY <2>2, <2>3
<1>6. Saw(p)' /\ Answering(p)' /\ Telling(p)' /\ Settled(p)'
  BY <1>2 DEF Saw, Answering, Telling, Settled
<1> QED  BY <1>4, <1>5, <1>6, OwnGoes DEF CallInv

(* A mutation that adds no row and leaves its run being prepared.           *)
LEMMA RowKept ==
    ASSUME Coherent, NEW w \in Runs, Only(w), rows'[w] = rows[w], state'[w] = "preparing",
           \A kind \in {"candidate", "diff"} : evidence'[w][kind] = evidence[w][kind],
           \/ evidence'[w] = evidence[w]
           \/ rows[w] = {} /\ KeyHolds(w)'
    PROVE  RunInv(w)'
<1>1. RunInv(w)
  BY DEF Coherent
<1>2. RowHolds(w)'
  BY <1>1 DEF RunInv, RowHolds, PreparedStates, Fields
<1>3. ArtifactsHold(w)'
  BY <1>1 DEF RunInv, ArtifactsHold, Only
<1>4. Unborn(w)'
  BY NullIsNoState DEF Unborn, States
<1>5. KeyHolds(w)'
  BY <1>1 DEF RunInv, KeyHolds, Only
<1> QED  BY <1>2, <1>3, <1>4, <1>5 DEF RunInv

LEMMA InspectHolds ==
    ASSUME Coherent, NEW p \in Procs, Inspect(p)
    PROVE  Coherent'
<1> DEFINE c == call[p]
           x == [source |-> c.source.body, prior |-> c.prior.body]
           step == IF Expects[c.request] \in {Null, c.source.body} THEN "execute" ELSE "failing"
<1>1. /\ Shape /\ Owner(p) /\ Going(p) /\ DOMAIN c = CallFields /\ pc[p] = "inspect"
      /\ UNCHANGED <<stored, damaged>>
  BY DEF Coherent, CallInv, Shape, Inspect, storeVars, fileVars
<1>2. Owns(p) /\ ~Fails(p)
  BY <1>1 DEF Owner, Owns, Fails, Steps, LedgerSteps, Writing
<1>3. PICK w : w = c.run
  OBVIOUS
<1>4. /\ w \in Runs /\ "failure_evidence" \notin rows[w]
      /\ rows[w] = {} /\ c.kind = "candidate" /\ c.source.body \in Contents
      /\ \A f \in Fields : evidence[w][f] = Null
  BY <1>1, <1>2, <1>3 DEF Owner, Going, Opening
<1>5. /\ Only(w) /\ rows' = rows /\ state'[w] = "preparing"
      /\ \A f \in Fields :
            evidence'[w][f] = IF f \in {"source", "prior"} THEN x[f] ELSE evidence[w][f]
  BY <1>1, <1>3, <1>4, Appends DEF Inspect, SourceInspected
<1>6. RunInv(w)'
  <2>1. KeyHolds(w)'
    BY <1>4, <1>5 DEF KeyHolds, Fields
  <2> QED  BY <1>4, <1>5, <2>1, RowKept DEF Fields
<1>7. CASE Err(p)
  BY <1>2, <1>3, <1>4, <1>5, <1>6, <1>7, OwnErrs
<1>8. ASSUME NEW d, DOMAIN d = CallFields, Go(p, step, d),
             d.run = c.run, d.key = c.key, d.request = c.request,
             d.repeat = c.repeat, d.source = c.source, d.kind = c.kind
      PROVE  Coherent'
  <2>1. evidence'[w].source = d.source.body /\ evidence'[w].plan = Null
    BY <1>4, <1>5, <1>8 DEF Fields
  <2>2. PICK s \in {"execute", "failing"} : s = step
    OBVIOUS
  <2>3. Go(p, s, d)
    BY <1>8, <2>2
  <2> HIDE DEF step, x
  <2> QED  BY <1>2, <1>3, <1>4, <1>5, <1>6, <1>8, <2>1, <2>3, GoingOn DEF Owns, Writing
<1> HIDE DEF step, x
<1> QED  BY <1>1, <1>7, <1>8, LoggedMoves DEF Inspect, step

LEMMA ExecuteHolds ==
    ASSUME Coherent, NEW p \in Procs, Execute(p)
    PROVE  Coherent'
<1> DEFINE c == call[p]
           made == Edit[c.request][c.source.body]
           n == [c EXCEPT !.made = made]
           step == IF made = Null THEN "failing" ELSE "dry_run"
<1>1. /\ Shape /\ Owner(p) /\ Going(p) /\ DOMAIN c = CallFields /\ pc[p] = "execute"
      /\ UNCHANGED <<stored, damaged>>
  BY DEF Coherent, CallInv, Shape, Execute, storeVars, fileVars
<1>2. Owns(p) /\ ~Fails(p)
  BY <1>1 DEF Owner, Owns, Fails, Steps, LedgerSteps, Writing
<1>3. PICK w : w = c.run
  OBVIOUS
<1>4. /\ w \in Runs /\ "failure_evidence" \notin rows[w]
      /\ rows[w] = {} /\ c.kind = "candidate" /\ c.source.body \in Contents
      /\ Keyed(c) /\ evidence[w].plan = Null /\ evidence[w].source = c.source.body
  BY <1>1, <1>2, <1>3 DEF Owner, Going, Opening
<1>5. /\ Only(w) /\ rows' = rows /\ state'[w] = "preparing"
      /\ \A f \in Fields :
            evidence'[w][f] = IF f \in {"plan"} THEN [plan |-> c.request][f] ELSE evidence[w][f]
  BY <1>1, <1>3, <1>4, Appends DEF Execute, PlanNormalized
<1>6. evidence'[w].plan = c.request /\ evidence'[w].source = evidence[w].source
  BY <1>5 DEF Fields
<1>7. RunInv(w)'
  <2>1. KeyHolds(w)'
    BY <1>3, <1>4, <1>5, <1>6 DEF KeyHolds, Keyed, Only
  <2> QED  BY <1>4, <1>5, <2>1, RowKept DEF Fields
<1>8. CASE Err(p)
  BY <1>2, <1>3, <1>4, <1>5, <1>7, <1>8, OwnErrs
<1>9. made # Null => made \in Contents
  BY <1>4, PipelineAssumption DEF Keyed
<1>10. ASSUME NEW d, DOMAIN d = CallFields, Go(p, step, d),
              d.run = c.run, d.key = c.key, d.request = c.request,
              d.repeat = c.repeat, d.source = c.source, d.kind = c.kind, d.made = made
      PROVE  Coherent'
  <2>1. PICK s \in {"dry_run", "failing"} : s = step
    OBVIOUS
  <2>2. Go(p, s, d)
    BY <1>10, <2>1
  <2>3. s # "failing" => d.made \in Contents /\ d.made = Edit[d.request][d.source.body]
    BY <1>9, <1>10, <2>1
  <2> HIDE DEF step, made
  <2> QED  BY <1>2, <1>3, <1>4, <1>5, <1>6, <1>7, <1>10, <2>2, <2>3, GoingOn DEF Owns, Writing
<1>11. /\ DOMAIN n = CallFields
       /\ n.run = c.run /\ n.key = c.key /\ n.request = c.request
       /\ n.repeat = c.repeat /\ n.source = c.source /\ n.kind = c.kind /\ n.made = made
  BY <1>1 DEF CallFields
<1>12. Logged(p, step, n)
  BY DEF Execute
<1> HIDE DEF step, made, n
<1> QED  BY <1>8, <1>10, <1>11, <1>12, LoggedMoves

LEMMA FinishDryRunHolds ==
    ASSUME Coherent, NEW p \in Procs, FinishDryRun(p)
    PROVE  Coherent'
<1> DEFINE c == call[p]
<1>1. /\ Shape /\ Owner(p) /\ Going(p) /\ DOMAIN c = CallFields /\ pc[p] = "dry_run"
      /\ UNCHANGED <<stored, damaged>>
  BY DEF Coherent, CallInv, Shape, FinishDryRun, storeVars, fileVars
<1>2. Owns(p)
  BY <1>1 DEF Owner, Owns, Steps, LedgerSteps
<1>3. ~Fails(p)
  BY <1>1, <1>2 DEF Owner, Fails, Writing
<1>4. PICK w : w = c.run
  OBVIOUS
<1>5. /\ w \in Runs /\ "failure_evidence" \notin rows[w]
      /\ rows[w] = {} /\ c.kind = "candidate" /\ c.source.body \in Contents
      /\ evidence[w].source = c.source.body /\ evidence[w].plan = c.request
      /\ c.made \in Contents /\ c.made = Edit[c.request][c.source.body]
  BY <1>1, <1>2, <1>3, <1>4 DEF Owner, Going, Opening
<1>6. /\ Only(w) /\ rows' = rows /\ state'[w] = "preparing"
      /\ \A f \in Fields : evidence'[w][f] = evidence[w][f]
  <2>1. PICK x : x = evidence[c.run]
    OBVIOUS
  <2>2. AppendEvidence(w, "preparing", c.v, "dry_run_completed", {}, x)
    BY <1>4, <2>1 DEF FinishDryRun, DryRunCompleted
  <2> QED  BY <1>1, <1>5, <2>2, Appends
<1>7. evidence'[w] = evidence[w]
  BY <1>1, <1>5, <1>6 DEF Shape, Only
<1>8. RunInv(w)'
  BY <1>5, <1>6, <1>7, RowKept
<1>9. CASE Err(p)
  BY <1>2, <1>3, <1>4, <1>5, <1>6, <1>8, <1>9, OwnErrs
<1>10. ASSUME NEW d, DOMAIN d = CallFields, Go(p, "recheck", d),
              d.run = c.run, d.key = c.key, d.request = c.request,
              d.repeat = c.repeat, d.source = c.source, d.kind = c.kind, d.made = c.made
      PROVE  Coherent'
  <2>1. /\ evidence'[w].source = d.source.body /\ evidence'[w].plan = d.request
        /\ d.made \in Contents /\ d.made = Edit[d.request][d.source.body]
        /\ d.source.body \in Contents /\ d.kind = "candidate" /\ rows'[w] = {}
        /\ "failure_evidence" \notin rows'[w] /\ ~d.repeat
    BY <1>2, <1>5, <1>6, <1>7, <1>10 DEF Owns
  <2> QED  BY <1>2, <1>3, <1>4, <1>5, <1>6, <1>8, <1>10, <2>1, GoingOn DEF Writing
<1> QED  BY <1>1, <1>9, <1>10, LoggedMoves DEF FinishDryRun

(* Where a call stands that is about to record the artifact in its hand.    *)
LEMMA RecordStarts ==
    ASSUME Coherent, NEW p \in Procs, pc[p] = "record", call[p].kind # "failure_evidence",
           NEW w, w = call[p].run
    PROVE  LET c == call[p] IN
           /\ Owns(p) /\ ~Fails(p) /\ w \in Runs /\ "failure_evidence" \notin rows[w]
           /\ \/ c.kind = "candidate" /\ rows[w] = {} /\ BodyOf(c) = c.made
              \/ /\ c.kind = "diff" /\ rows[w] = {"candidate"}
                 /\ BodyOf(c) = [source |-> evidence[w].source, plan |-> evidence[w].plan,
                                 candidate |-> evidence[w].candidate]
           /\ \A kind \in {"candidate", "diff"} \ rows[w] : evidence[w][kind] = Null
           /\ c.source.body \in Contents
           /\ evidence[w].source = c.source.body /\ evidence[w].plan = c.request
           /\ c.made \in Contents /\ c.made # Null /\ c.made = Edit[c.request][c.source.body]
           /\ <<w, c.kind>> \in damaged \/ stored[w][c.kind] = BodyOf(c)
<1> DEFINE c == call[p]
<1>1. Owner(p) /\ Going(p)
  BY DEF Coherent, CallInv
<1>2. Owns(p) /\ ~Fails(p)
  BY <1>1 DEF Owner, Owns, Fails, Steps, LedgerSteps
<1>3. /\ w \in Runs /\ "failure_evidence" \notin rows[w]
      /\ <<w, c.kind>> \in damaged \/ stored[w][c.kind] = BodyOf(c)
  BY <1>1, <1>2 DEF Owner
<1>4. /\ c.kind = "candidate" => rows[w] = {}
      /\ c.kind = "diff" => rows[w] = {"candidate"}
      /\ c.kind \in {"candidate", "diff"}
      /\ c.source.body \in Contents
      /\ evidence[w].source = c.source.body /\ evidence[w].plan = c.request
      /\ c.made \in Contents /\ c.made = Edit[c.request][c.source.body]
  BY <1>1, <1>2 DEF Going, Opening, Writing
<1>5. RowHolds(w)
  BY <1>3 DEF Coherent, RunInv
<1>6. /\ \A kind \in {"candidate", "diff"} \ rows[w] : evidence[w][kind] = Null
      /\ "candidate" \in rows[w] => evidence[w].candidate = c.made
  BY <1>4, <1>5 DEF RowHolds
<1>7. c.kind = "diff" => BodyOf(c) = [source |-> evidence[w].source, plan |-> evidence[w].plan,
                                      candidate |-> evidence[w].candidate]
  BY <1>4, <1>6 DEF BodyOf
<1>8. c.kind = "candidate" => BodyOf(c) = c.made
  BY DEF BodyOf
<1>9. c.made # Null
  BY <1>4, PipelineAssumption
<1> QED  BY <1>2, <1>3, <1>4, <1>6, <1>7, <1>8, <1>9

LEMMA RecordHolds ==
    ASSUME Coherent, NEW p \in Procs, Record(p)
    PROVE  Coherent'
<1> DEFINE c == call[p]
           n == [c EXCEPT !.kind = "diff"]
<1>1. /\ Shape /\ Owner(p) /\ Going(p) /\ DOMAIN c = CallFields /\ pc[p] = "record"
      /\ c.kind # "failure_evidence" /\ UNCHANGED <<stored, damaged>>
  BY DEF Coherent, CallInv, Shape, Record, storeVars, fileVars
<1>2. PICK w, kind, body : w = c.run /\ kind = c.kind /\ body = BodyOf(c)
  OBVIOUS
<1>3. /\ Owns(p) /\ ~Fails(p) /\ w \in Runs /\ "failure_evidence" \notin rows[w]
      /\ \/ kind = "candidate" /\ rows[w] = {} /\ body = c.made
         \/ /\ kind = "diff" /\ rows[w] = {"candidate"}
            /\ body = [source |-> evidence[w].source, plan |-> evidence[w].plan,
                       candidate |-> evidence[w].candidate]
      /\ \A k \in {"candidate", "diff"} \ rows[w] : evidence[w][k] = Null
      /\ c.source.body \in Contents
      /\ evidence[w].source = c.source.body /\ evidence[w].plan = c.request
      /\ c.made \in Contents /\ c.made # Null /\ c.made = Edit[c.request][c.source.body]
      /\ <<w, kind>> \in damaged \/ stored[w][kind] = body
  BY <1>1, <1>2, RecordStarts
<1>4. RecordArtifact(w, "preparing", c.v, kind, [k \in {kind} |-> body])
  BY <1>2 DEF Record
<1>5. /\ DOMAIN state' = Runs /\ DOMAIN revision' = Runs
      /\ \A r \in Runs \ {w} : state'[r] = state[r] /\ revision'[r] = revision[r]
      /\ state[w] = "preparing" /\ state'[w] = "preparing"
  BY <1>1, <1>3, <1>4, Advances DEF RecordArtifact
<1>6. /\ evidence' = [evidence EXCEPT ![w][kind] = body]
      /\ rows' = [rows EXCEPT ![w] = @ \cup {kind}]
      /\ keys' = keys /\ kind \in {"candidate", "diff"} /\ kind \notin rows[w]
  BY <1>4 DEF RecordArtifact
<1>7. /\ DOMAIN evidence' = Runs /\ DOMAIN rows' = Runs
      /\ \A r \in Runs \ {w} : evidence'[r] = evidence[r] /\ rows'[r] = rows[r]
      /\ rows'[w] = rows[w] \cup {kind}
      /\ evidence'[w] = [evidence[w] EXCEPT ![kind] = body]
  BY <1>1, <1>3, <1>6 DEF Shape
<1>8. /\ evidence'[w] = [f \in Fields |-> evidence'[w][f]]
      /\ evidence'[w][kind] = body
      /\ \A f \in Fields \ {kind} : evidence'[w][f] = evidence[w][f]
  <2>1. PICK e : e = evidence[w]
    OBVIOUS
  <2>2. e = [f \in Fields |-> e[f]] /\ evidence'[w] = [e EXCEPT ![kind] = body]
    BY <1>1, <1>3, <1>7, <2>1 DEF Shape
  <2>3. [e EXCEPT ![kind] = body] = [f \in Fields |-> IF f = kind THEN body ELSE e[f]]
    BY <1>6, <2>2 DEF Fields
  <2> QED  BY <1>6, <2>1, <2>2, <2>3 DEF Fields
<1>9. Only(w)
  BY <1>1, <1>3, <1>5, <1>6, <1>7, <1>8 DEF Only, Shape, Kinds
<1>10. RunInv(w)'
  <2>1. RunInv(w)
    BY <1>3 DEF Coherent
  <2>2. RowHolds(w)'
    <3>1. /\ evidence'[w].source = evidence[w].source /\ evidence'[w].plan = evidence[w].plan
          /\ kind = "diff" => evidence'[w].candidate = evidence[w].candidate
      BY <1>6, <1>8 DEF Fields
    <3>2. CASE kind = "candidate"
      BY <1>3, <1>5, <1>7, <1>8, <3>1, <3>2 DEF RowHolds, PreparedStates, Fields
    <3>3. CASE kind = "diff"
      BY <1>3, <1>5, <1>7, <1>8, <2>1, <3>1, <3>3 DEF RunInv, RowHolds, PreparedStates, Fields
    <3> QED  BY <1>6, <3>2, <3>3
  <2>3. ArtifactsHold(w)'
    BY <1>1, <1>3, <1>6, <1>7, <1>8, <2>1 DEF RunInv, ArtifactsHold, Fields
  <2>4. Unborn(w)' /\ KeyHolds(w)'
    BY <1>5, <1>6, <1>8, <2>1, NullIsNoState DEF RunInv, Unborn, KeyHolds, States, Fields
  <2> QED  BY <2>2, <2>3, <2>4 DEF RunInv
<1>11. "failure_evidence" \notin rows'[w]
  BY <1>3, <1>6, <1>7
<1>12. CASE Err(p)
  BY <1>1, <1>2, <1>3, <1>9, <1>10, <1>11, <1>12, OwnErrs
<1>13. evidence'[w].source = c.source.body /\ evidence'[w].plan = c.request
  BY <1>3, <1>6, <1>8 DEF Fields
<1>14. ASSUME NEW d, NEW step, DOMAIN d = CallFields, Go(p, step, d),
              d.run = c.run, d.key = c.key, d.request = c.request,
              d.repeat = c.repeat, d.source = c.source, d.kind = "diff", d.made = c.made,
              \/ step = "write" /\ kind = "candidate"
              \/ step = "match_source"
       PROVE  Coherent'
  <2>1. step \in Writing => rows'[w] = {"candidate"}
    BY <1>3, <1>7, <1>14 DEF Writing
  <2>2. /\ evidence'[w].source = d.source.body /\ evidence'[w].plan = d.request
        /\ d.made \in Contents /\ d.made = Edit[d.request][d.source.body]
        /\ d.source.body \in Contents /\ ~d.repeat /\ step \in {"write", "match_source"}
    BY <1>3, <1>13, <1>14 DEF Owns
  <2>3. CASE step = "write"
    BY <1>2, <1>3, <1>9, <1>10, <1>11, <1>14, <2>1, <2>2, <2>3, GoingOn
  <2>4. CASE step = "match_source"
    BY <1>2, <1>3, <1>9, <1>10, <1>11, <1>14, <2>1, <2>2, <2>4, GoingOn
  <2> QED  BY <1>14, <2>3, <2>4
<1>15. CASE kind = "candidate"
  <2>1. /\ DOMAIN n = CallFields
        /\ n.run = c.run /\ n.key = c.key /\ n.request = c.request
        /\ n.repeat = c.repeat /\ n.source = c.source /\ n.kind = "diff" /\ n.made = c.made
    BY <1>1 DEF CallFields
  <2>2. Logged(p, "write", n)
    BY <1>2, <1>15 DEF Record
  <2> HIDE DEF n
  <2> QED  BY <1>12, <1>14, <1>15, <2>1, <2>2, LoggedMoves
<1>16. CASE kind = "diff"
  <2>1. Logged(p, "match_source", c)
    BY <1>2, <1>16 DEF Record
  <2>2. CASE ~Err(p)
    <3>1. PICK d : /\ DOMAIN d = CallFields /\ Go(p, "match_source", d)
                   /\ d.run = c.run /\ d.key = c.key /\ d.request = c.request
                   /\ d.repeat = c.repeat /\ d.source = c.source /\ d.made = c.made
                   /\ d.kind = c.kind /\ d.view = c.view
      BY <1>1, <2>1, <2>2, LoggedMoves
    <3>2. d.kind = "diff"
      BY <1>2, <1>16, <3>1
    <3> QED  BY <1>14, <3>1, <3>2
  <2> QED  BY <1>12, <2>2
<1> QED  BY <1>6, <1>15, <1>16

LEMMA PreviewHolds ==
    ASSUME Coherent, NEW p \in Procs, Preview(p)
    PROVE  Coherent'
<1> DEFINE c == call[p]
<1>1. /\ Shape /\ Owner(p) /\ Going(p) /\ DOMAIN c = CallFields /\ pc[p] = "preview"
      /\ UNCHANGED <<stored, damaged>>
  BY DEF Coherent, CallInv, Shape, Preview, storeVars, fileVars
<1>2. Owns(p)
  BY <1>1 DEF Owner, Owns, Steps, LedgerSteps
<1>3. ~Fails(p)
  BY <1>1, <1>2 DEF Owner, Fails, Writing
<1>4. PICK w : w = c.run
  OBVIOUS
<1>5. /\ w \in Runs /\ "failure_evidence" \notin rows[w]
      /\ c.kind \in {"candidate", "diff"} /\ (c.kind = "candidate" => rows[w] = {})
      /\ c.source.body \in Contents
      /\ evidence[w].source = c.source.body /\ evidence[w].plan = c.request
      /\ c.made \in Contents /\ c.made = Edit[c.request][c.source.body]
  BY <1>1, <1>2, <1>3, <1>4 DEF Owner, Going, Opening
<1>6. /\ DOMAIN state' = Runs /\ DOMAIN revision' = Runs
      /\ \A r \in Runs \ {w} : state'[r] = state[r] /\ revision'[r] = revision[r]
      /\ state[w] = "preparing" /\ state'[w] = "preparing"
      /\ rows' = rows /\ evidence' = evidence /\ keys' = keys
  BY <1>1, <1>4, <1>5, Advances DEF Preview, PreviewPersisted
<1>7. Only(w)
  BY <1>1, <1>5, <1>6 DEF Only, Shape
<1>8. RunInv(w)'
  BY <1>5, <1>6, <1>7, RowKept
<1>9. CASE Err(p)
  BY <1>2, <1>3, <1>4, <1>5, <1>6, <1>7, <1>8, <1>9, OwnErrs DEF Fails
<1>10. ASSUME NEW d, DOMAIN d = CallFields, Go(p, "await", d),
              d.run = c.run, d.key = c.key, d.request = c.request,
              d.repeat = c.repeat, d.source = c.source, d.kind = c.kind, d.made = c.made
      PROVE  Coherent'
  <2>1. /\ evidence'[w].source = d.source.body /\ evidence'[w].plan = d.request
        /\ d.made \in Contents /\ d.made = Edit[d.request][d.source.body]
        /\ d.source.body \in Contents /\ d.kind \in {"candidate", "diff"}
        /\ d.kind = "candidate" => rows'[w] = {}
        /\ "failure_evidence" \notin rows'[w] /\ ~d.repeat
    BY <1>2, <1>5, <1>6, <1>10 DEF Owns
  <2> QED  BY <1>2, <1>3, <1>4, <1>5, <1>7, <1>8, <1>10, <2>1, GoingOn DEF Writing
<1> QED  BY <1>1, <1>9, <1>10, LoggedMoves DEF Preview

LEMMA AwaitHolds ==
    ASSUME Coherent, NEW p \in Procs, Await(p)
    PROVE  Coherent'
<1> DEFINE c == call[p]
           n == [c EXCEPT !.view = [state |-> "awaiting_approval", evidence |-> evidence[c.run]]]
<1>1. /\ Shape /\ Owner(p) /\ Going(p) /\ DOMAIN c = CallFields /\ pc[p] = "await"
      /\ UNCHANGED <<stored, damaged>>
  BY DEF Coherent, CallInv, Shape, Await, storeVars, fileVars
<1>2. Owns(p)
  BY <1>1 DEF Owner, Owns, Steps, LedgerSteps
<1>3. ~Fails(p)
  BY <1>1, <1>2 DEF Owner, Fails, Writing
<1>4. PICK w : w = c.run
  OBVIOUS
<1>5. /\ w \in Runs /\ "failure_evidence" \notin rows[w] /\ Keyed(c)
      /\ c.kind \in {"candidate", "diff"} /\ (c.kind = "candidate" => rows[w] = {})
      /\ c.source.body \in Contents
      /\ evidence[w].source = c.source.body /\ evidence[w].plan = c.request
      /\ c.made \in Contents /\ c.made = Edit[c.request][c.source.body]
  BY <1>1, <1>2, <1>3, <1>4 DEF Owner, Going, Opening
<1>6. /\ Cas(w, "preparing", c.v) /\ Advance(w, "awaiting_approval", "awaiting_approval")
      /\ CompletePrepare(w)
      /\ rows' = rows /\ evidence' = evidence /\ keys' = keys
  BY <1>4 DEF Await, AwaitApproval, Transition
<1>7. /\ DOMAIN state' = Runs /\ DOMAIN revision' = Runs
      /\ \A r \in Runs \ {w} : state'[r] = state[r] /\ revision'[r] = revision[r]
      /\ state[w] = "preparing" /\ state'[w] = "awaiting_approval"
  BY <1>1, <1>5, <1>6, Advances
<1>8. Only(w)
  BY <1>1, <1>5, <1>6, <1>7 DEF Only, Shape
<1>9. RunInv(w)'
  <2>1. RunInv(w)
    BY <1>5 DEF Coherent
  <2>2. RowHolds(w)'
    BY <1>6, <2>1 DEF RunInv, RowHolds, CompletePrepare
  <2>3. ArtifactsHold(w)' /\ KeyHolds(w)'
    BY <1>1, <1>6, <2>1 DEF RunInv, ArtifactsHold, KeyHolds
  <2>4. Unborn(w)'
    BY <1>7, NullIsNoState DEF Unborn, States
  <2> QED  BY <2>2, <2>3, <2>4 DEF RunInv
<1>10. CASE Err(p)
  BY <1>2, <1>3, <1>4, <1>5, <1>6, <1>8, <1>9, <1>10, OwnErrs DEF Fails
<1>11. ASSUME NEW d, DOMAIN d = CallFields, Go(p, "rehydrate", d),
              d.run = c.run, d.key = c.key, d.request = c.request,
              d.repeat = c.repeat, d.source = c.source, d.kind = c.kind, d.made = c.made,
              d.view.evidence = evidence[w]
      PROVE  Coherent'
  <2>1. pc'[p] = "rehydrate" /\ call'[p] = d
    BY <1>1, <1>11, GoMoves
  <2>2. state'[w] # Null /\ evidence'[w] = evidence[w] /\ rows'[w] = rows[w]
    BY <1>6, <1>7, NullIsNoState DEF States
  <2>3. Owner(p)'
    BY <1>2, <1>4, <1>5, <1>11, <2>1, <2>2 DEF Owner, Owns
  <2>4. Going(p)'
    <3>1. Keyed(d)'
      BY <1>5, <1>6, <1>11 DEF Keyed
    <3> QED  BY <1>4, <1>5, <1>11, <2>1, <2>2, <3>1 DEF Going, Writing, Opening
  <2>5. Saw(p)'
    BY <1>1, <1>4, <1>5, <1>11, <2>1, <2>2 DEF Saw, Shape
  <2>6. /\ \A f \in Fields : evidence[w][f] # Null
        /\ evidence[w].candidate = Edit[c.request][evidence[w].source]
    <3>1. RowHolds(w)
      BY <1>5 DEF Coherent, RunInv
    <3> QED  BY <1>5, <1>6, <3>1 DEF CompletePrepare, RowHolds
  <2>7. Answering(p)'
    BY <1>4, <1>5, <1>6, <1>11, <2>1, <2>6 DEF Answering, Keyed
  <2>8. Telling(p)' /\ Settled(p)'
    BY <2>1 DEF Telling, Settled
  <2> QED  BY <1>2, <1>4, <1>5, <1>8, <1>9, <1>11, <2>3, <2>4, <2>5, <2>7, <2>8, OwnGoes
           DEF CallInv
<1>12. /\ DOMAIN n = CallFields
       /\ n.run = c.run /\ n.key = c.key /\ n.request = c.request
       /\ n.repeat = c.repeat /\ n.source = c.source /\ n.kind = c.kind /\ n.made = c.made
       /\ n.view.evidence = evidence[w]
  BY <1>1, <1>4 DEF CallFields
<1>13. Logged(p, "rehydrate", n)
  BY DEF Await
<1> HIDE DEF n
<1>14. CASE ~Err(p)
  <2>1. PICK d : /\ DOMAIN d = CallFields /\ Go(p, "rehydrate", d)
                 /\ d.run = n.run /\ d.key = n.key /\ d.request = n.request
                 /\ d.repeat = n.repeat /\ d.source = n.source /\ d.made = n.made
                 /\ d.kind = n.kind /\ d.view = n.view
    BY <1>12, <1>13, <1>14, LoggedMoves
  <2> QED  BY <1>11, <1>12, <2>1
<1> QED  BY <1>10, <1>14

LEMMA RecordFailureHolds ==
    ASSUME Coherent, NEW p \in Procs, RecordFailure(p)
    PROVE  Coherent'
<1> DEFINE c == call[p]
<1>1. /\ Shape /\ Owner(p) /\ DOMAIN c = CallFields /\ pc[p] = "record"
      /\ c.kind = "failure_evidence" /\ UNCHANGED <<stored, damaged>>
      /\ Go(p, "errored", c)
  BY DEF Coherent, CallInv, Shape, RecordFailure, storeVars, fileVars
<1>2. Owns(p)
  BY <1>1 DEF Owner, Owns, Steps, LedgerSteps
<1>3. PICK w : w = c.run
  OBVIOUS
<1>4. /\ w \in Runs
      /\ <<w, "failure_evidence">> \in damaged \/ stored[w]["failure_evidence"] = [run |-> w]
  BY <1>1, <1>2, <1>3 DEF Owner, BodyOf
<1>5. /\ Cas(w, "preparing", c.v) /\ Advance(w, "failed", "failed")
      /\ rows' = [rows EXCEPT ![w] = @ \cup {"failure_evidence"}]
      /\ evidence' = evidence /\ keys' = keys
  BY <1>3 DEF RecordFailure, RecordPrepareFailure
<1>6. /\ DOMAIN state' = Runs /\ DOMAIN revision' = Runs
      /\ \A r \in Runs \ {w} : state'[r] = state[r] /\ revision'[r] = revision[r]
      /\ state[w] = "preparing" /\ state'[w] = "failed"
  BY <1>1, <1>4, <1>5, Advances
<1>7. /\ DOMAIN rows' = Runs /\ \A r \in Runs \ {w} : rows'[r] = rows[r]
      /\ rows'[w] = rows[w] \cup {"failure_evidence"}
  BY <1>1, <1>4, <1>5 DEF Shape
<1>8. Only(w)
  BY <1>1, <1>4, <1>5, <1>6, <1>7 DEF Only, Shape, Kinds
<1>9. RunInv(w)'
  <2>1. RunInv(w)
    BY <1>4 DEF Coherent
  <2>2. RowHolds(w)'
    BY <1>5, <1>6, <1>7, <2>1 DEF RunInv, RowHolds, PreparedStates
  <2>3. ArtifactsHold(w)'
    BY <1>1, <1>4, <1>5, <1>7, <2>1 DEF RunInv, ArtifactsHold
  <2>4. Unborn(w)' /\ KeyHolds(w)'
    BY <1>5, <1>6, <2>1, NullIsNoState DEF RunInv, Unborn, KeyHolds, States, Terminal
  <2> QED  BY <2>2, <2>3, <2>4 DEF RunInv
<1>10. pc'[p] = "errored" /\ call'[p] = c
  BY <1>1, GoMoves
<1>11. CallInv(p)'
  <2>1. Settled(p)'
    BY <1>3, <1>4, <1>6, <1>10, NullIsNoState DEF Settled, States, Terminal
  <2>2. Owner(p)' /\ Going(p)' /\ Saw(p)' /\ Answering(p)' /\ Telling(p)'
    BY <1>10 DEF Owner, Going, Saw, Answering, Telling, Owns, Steps, LedgerSteps
  <2> QED  BY <2>1, <2>2 DEF CallInv
<1> QED  BY <1>1, <1>2, <1>3, <1>4, <1>8, <1>9, <1>11, OwnGoes

LEMMA CreateHolds ==
    ASSUME Coherent, NEW p \in Procs, NEW r \in Runs, NEW k \in Keys \cup {Null},
           NEW q \in Requests, Create(p, r, k, q)
    PROVE  Coherent'
<1> DEFINE c == [NoCall EXCEPT !.run = r, !.key = k, !.request = q, !.v = 1]
           l == [c EXCEPT !.lost = TRUE]
<1>1. /\ Shape /\ state[r] = Null /\ RunInv(r) /\ UNCHANGED <<stored, damaged>>
      /\ rows[r] = {} /\ \A f \in Fields : evidence[r][f] = Null
      /\ \A j \in Keys : keys[j] # Null => keys[j].run # r
  BY DEF Coherent, RunInv, Unborn, Create, CreateRun, CreateKeyedRun, InsertRun, storeVars,
         fileVars
<1>2. /\ state' = [state EXCEPT ![r] = "preparing"] /\ revision' = [revision EXCEPT ![r] = 1]
      /\ rows' = rows /\ evidence' = evidence
  BY DEF Create, CreateRun, CreateKeyedRun, InsertRun
<1>3. \/ k = Null /\ keys' = keys
      \/ /\ k # Null /\ k \in Keys /\ keys[k] = Null
         /\ keys' = [keys EXCEPT ![k] = [request |-> q, run |-> r]]
  BY DEF Create, CreateRun, CreateKeyedRun
<1>4. /\ keys' \in [Keys -> [request : Requests, run : Runs] \cup {Null}]
      /\ \A j \in Keys : j # k => keys'[j] = keys[j]
      /\ k # Null => k \in Keys /\ keys[k] = Null /\ keys'[k] = [request |-> q, run |-> r]
      /\ k = Null => keys' = keys
  BY <1>1, <1>3 DEF Shape
<1>5. /\ DOMAIN state' = Runs /\ DOMAIN revision' = Runs
      /\ \A w \in Runs \ {r} : state'[w] = state[w] /\ revision'[w] = revision[w]
      /\ state'[r] = "preparing"
  BY <1>1, <1>2 DEF Shape
<1>6. Grows
  BY <1>1, <1>4, <1>5, NullIsNoState DEF Grows, States
<1>7. Moved
  BY <1>1, <1>2, <1>5 DEF Moved
<1>8. \A w \in Runs \ {r} : Quiet(w)
  BY <1>1, <1>2, <1>5 DEF Quiet
<1>9. RunInv(r)'
  <2>1. RowHolds(r)'
    BY <1>1, <1>2, <1>5 DEF RowHolds, PreparedStates, Fields
  <2>2. ArtifactsHold(r)'
    BY <1>1, <1>2 DEF ArtifactsHold
  <2>3. Unborn(r)'
    BY <1>5, NullIsNoState DEF Unborn, States
  <2>4. KeyHolds(r)'
    BY <1>1, <1>2 DEF KeyHolds, Fields
  <2> QED  BY <2>1, <2>2, <2>3, <2>4 DEF RunInv
<1>10. /\ DOMAIN c = CallFields /\ c.run = r /\ c.key = k /\ c.request = q
       /\ c.kind = "candidate" /\ c.repeat = FALSE
  BY DEF NoCall, CallFields
<1>11. /\ DOMAIN l = CallFields /\ l.run = r /\ l.repeat = FALSE /\ l.lost = TRUE
  BY <1>10 DEF CallFields
<1>12. Go(p, "snapshot", c) \/ Go(p, "errored", l)
  BY DEF Create
<1> HIDE DEF c, l
<1>13. CASE Go(p, "snapshot", c)
  <2>1. /\ pc'[p] = "snapshot" /\ call'[p] = c
        /\ OthersWait(p)
        /\ DOMAIN pc' = Procs /\ DOMAIN call' = Procs
        /\ \A o \in Procs : DOMAIN call'[o] = CallFields
    BY <1>1, <1>10, <1>13, GoMoves
  <2>2. Shape'
    BY <1>1, <1>2, <1>4, <1>5, <2>1 DEF Shape
  <2>3. Owner(p)'
    BY <1>1, <1>2, <1>5, <1>10, <2>1, NullIsNoState DEF Owner, States
  <2>4. Keyed(call[p])'
    BY <1>1, <1>4, <1>10, <2>1 DEF Keyed
  <2>5. Going(p)'
    BY <1>1, <1>2, <1>10, <2>1, <2>4 DEF Going, Opening, Writing
  <2>6. Saw(p)' /\ Answering(p)' /\ Telling(p)' /\ Settled(p)'
    BY <2>1 DEF Saw, Answering, Telling, Settled
  <2>7. state[call'[p].run] = Null
    BY <1>1, <1>10, <2>1
  <2> QED  BY <1>1, <1>6, <1>7, <1>8, <1>9, <2>1, <2>2, <2>3, <2>5, <2>6, <2>7, StepHolds
           DEF CallInv
<1>14. CASE Go(p, "errored", l)
  <2>1. /\ pc'[p] = "errored" /\ call'[p] = l
        /\ OthersWait(p)
        /\ DOMAIN pc' = Procs /\ DOMAIN call' = Procs
        /\ \A o \in Procs : DOMAIN call'[o] = CallFields
    BY <1>1, <1>11, <1>14, GoMoves
  <2>2. Shape'
    BY <1>1, <1>2, <1>4, <1>5, <2>1 DEF Shape
  <2>3. Owner(p)' /\ Going(p)' /\ Saw(p)' /\ Answering(p)' /\ Telling(p)'
    BY <2>1 DEF Owner, Going, Saw, Answering, Telling, Owns, Steps, LedgerSteps
  <2>4. Settled(p)'
    BY <1>5, <1>11, <2>1, NullIsNoState DEF Settled, States
  <2>5. state[call'[p].run] = Null
    BY <1>1, <1>11, <2>1
  <2> QED  BY <1>1, <1>6, <1>7, <1>8, <1>9, <2>1, <2>2, <2>3, <2>4, <2>5, StepHolds
           DEF CallInv
<1> QED  BY <1>12, <1>13, <1>14

-----------------------------------------------------------------------------
(* Everybody else.                                                          *)

LEMMA FilesChange ==
    ASSUME Coherent, UNCHANGED <<ledgerVars, storeVars, damaged, callVars>>
    PROVE  Coherent'
<1>1. Grows /\ Moved /\ \A r \in Runs : Quiet(r)
  BY DEF Grows, Moved, Quiet, ledgerVars, storeVars
<1>2. Shape'
  BY DEF Coherent, Shape, ledgerVars, storeVars, callVars
<1> QED  BY <1>1, <1>2, OutsideHolds

LEMMA DamageHolds ==
    ASSUME Coherent, NEW r \in Runs, NEW kind \in Kinds, DamageArtifact(r, kind)
    PROVE  Coherent'
<1>1. /\ Shape /\ UNCHANGED <<ledgerVars, callVars>>
      /\ stored' = [stored EXCEPT ![r][kind] = Corrupt] /\ damaged' = damaged \cup {<<r, kind>>}
  BY DEF Coherent, DamageArtifact, Damage
<1>2. /\ DOMAIN stored' = Runs /\ \A w \in Runs : DOMAIN stored'[w] = Kinds
      /\ \A w \in Runs, k \in Kinds : stored'[w][k] = stored[w][k] \/ <<w, k>> = <<r, kind>>
  BY <1>1 DEF Shape
<1>3. Grows /\ Moved
  BY <1>1 DEF Grows, Moved, ledgerVars
<1>4. \A w \in Runs : Quiet(w)
  BY <1>1, <1>2 DEF Quiet, ledgerVars
<1>5. Shape'
  BY <1>1, <1>2 DEF Shape, ledgerVars, callVars
<1> QED  BY <1>1, <1>3, <1>4, <1>5, OutsideHolds

(* A cancel or a reconcile.                                                 *)
LEMMA EndHolds ==
    ASSUME Coherent, NEW r \in Runs, NEW to \in {"failed", "cancelled"}, NEW type, NEW s, NEW v,
           s = state[r], Transition(r, s, v, to, type),
           UNCHANGED <<storeVars, callVars, damaged>>
    PROVE  Coherent'
<1>1. /\ Shape /\ Advance(r, to, type) /\ state[r] # Null
      /\ UNCHANGED <<evidence, rows, keys, stored, damaged, pc, call>>
  <2>1. <<s, to>> \in LegalTransitions
    BY DEF Transition
  <2>2. s # Null
    BY <2>1, NullIsNoState DEF LegalTransitions, States, Terminal
  <2> QED  BY <2>2 DEF Coherent, Transition, storeVars, callVars
<1>2. /\ DOMAIN state' = Runs /\ DOMAIN revision' = Runs
      /\ \A w \in Runs \ {r} : state'[w] = state[w] /\ revision'[w] = revision[w]
      /\ state'[r] = to
  BY <1>1 DEF Shape, Advance
<1>3. Grows /\ Moved
  BY <1>1, <1>2, NullIsNoState DEF Grows, Moved, States, Terminal
<1>4. \A w \in Runs : Quiet(w)
  BY <1>1, <1>2 DEF Quiet
<1>5. Shape'
  BY <1>1, <1>2 DEF Shape
<1> QED  BY <1>3, <1>4, <1>5, OutsideHolds DEF callVars

LEMMA EnvironmentHolds ==
    ASSUME Coherent, Environment
    PROVE  Coherent'
<1>1. CASE ChangeSource \/ ChangeDestination
  BY <1>1, FilesChange DEF ChangeSource, ChangeDestination
<1>2. ASSUME NEW r \in Runs, CancelRun(r)
      PROVE  Coherent'
  <2>1. PICK s, v : s = state[r] /\ v = revision[r]
    OBVIOUS
  <2> QED  BY <1>2, <2>1, EndHolds DEF CancelRun, Cancel, fileVars
<1>3. ASSUME NEW r \in Runs, GiveUp(r)
      PROVE  Coherent'
  <2>1. PICK s, v : s = state[r] /\ v = revision[r]
    OBVIOUS
  <2> QED  BY <1>3, <2>1, EndHolds DEF GiveUp, ReconcilePreparing, fileVars
<1>4. ASSUME NEW r \in Runs, NEW kind \in Kinds, DamageArtifact(r, kind)
      PROVE  Coherent'
  BY <1>4, DamageHolds
<1> QED  BY <1>1, <1>2, <1>3, <1>4 DEF Environment

LEMMA PreparerHolds ==
    ASSUME Coherent, TypeOK, NEW p \in Preparers, PreparerStep(p)
    PROVE  Coherent'
<1> p \in Procs
  BY DEF Procs
<1>1. ASSUME NEW q \in Requests, NEW r \in Runs, NEW k \in Keys \cup {Null}, Create(p, r, k, q)
      PROVE  Coherent'
  BY <1>1, CreateHolds
<1>2. ASSUME NEW q \in Requests, NEW k \in Keys, Repeat(p, k, q) \/ Conflict(p, k, q)
      PROVE  Coherent'
  BY <1>2, RepeatHolds, ConflictHolds
<1>3. CASE SnapshotSource(p)
  BY <1>3, SnapshotSourceHolds
<1>4. CASE ObserveDestination(p)
  BY <1>4, ObserveDestinationHolds
<1>5. CASE Inspect(p)
  BY <1>5, InspectHolds
<1>6. CASE Execute(p)
  BY <1>6, ExecuteHolds
<1>7. CASE FinishDryRun(p)
  BY <1>7, FinishDryRunHolds
<1>8. CASE Recheck(p)
  BY <1>8, RecheckHolds DEF Recheck, storeVars, fileVars
<1>9. CASE Write(p)
  BY <1>9, WriteHolds
<1>10. CASE ConfirmWrite(p)
  BY <1>10, ConfirmWriteHolds
<1>11. CASE Reopen(p)
  BY <1>11, ReopenHolds
<1>12. CASE Record(p)
  BY <1>12, RecordHolds
<1>13. CASE MatchSource(p)
  BY <1>13, RecheckHolds DEF MatchSource, storeVars, fileVars
<1>14. CASE MatchDestination(p)
  BY <1>14, RecheckHolds DEF MatchDestination, storeVars, fileVars
<1>15. CASE Preview(p)
  BY <1>15, PreviewHolds
<1>16. CASE Await(p)
  BY <1>16, AwaitHolds
<1>17. CASE Rehydrate(p)
  BY <1>17, RehydrateHolds
<1>18. CASE Refused(p)
  BY <1>18, RefusedHolds
<1>19. CASE Stumble(p)
  BY <1>19, StumbleHolds
<1>20. CASE Failing(p)
  BY <1>20, FailingHolds
<1>21. CASE RecordFailure(p)
  BY <1>21, RecordFailureHolds
<1>22. CASE Finish(p)
  BY <1>22, FinishHolds
<1>23. CASE Crash(p)
  BY <1>23, CrashHolds
<1> QED
  BY <1>1, <1>2, <1>3, <1>4, <1>5, <1>6, <1>7, <1>8, <1>9, <1>10, <1>11, <1>12, <1>13, <1>14,
     <1>15, <1>16, <1>17, <1>18, <1>19, <1>20, <1>21, <1>22, <1>23 DEF PreparerStep

LEMMA ReaderHolds ==
    ASSUME Coherent, NEW s \in Readers, ReaderStep(s)
    PROVE  Coherent'
  BY ReadRowHolds, ReadEffectiveHolds, LookHolds, FinishHolds DEF ReaderStep, Procs

-----------------------------------------------------------------------------
(* Types.                                                                   *)

Places == Steps \cup {"idle", "replied", "errored", "effective", "look", "told", "accused"}

(* All that a step of a call does to what TypeOK speaks of.                 *)
Tidy(p) ==
    /\ UNCHANGED fileVars
    /\ faults' = faults \/ Fault
    /\ \E step \in Places : pc' = [pc EXCEPT ![p] = step]
    /\ locked' \in [Runs -> Preparers \cup {Nothing}]

LEMMA HandledTidy ==
    ASSUME NEW p, NEW lost, Handled(p, lost)
    PROVE  \E step \in Places : pc' = [pc EXCEPT ![p] = step]
  BY DEF Handled, Go, Places, Steps

LEMMA LoggedTidy ==
    ASSUME NEW p, NEW step \in Places, NEW c, Logged(p, step, c)
    PROVE  /\ faults' = faults \/ Fault
           /\ \E to \in Places : pc' = [pc EXCEPT ![p] = to]
<1>1. CASE Err(p)
  BY <1>1, HandledTidy DEF Logged, Err
<1>2. CASE ~Err(p)
  BY <1>2 DEF Logged, Go
<1> QED  BY <1>1, <1>2

LEMMA StartTidy ==
    ASSUME TypeOK, NEW p, NEW q \in Requests,
           \/ \E r \in Runs, k \in Keys \cup {Null} : Create(p, r, k, q)
           \/ \E k \in Keys : Repeat(p, k, q) \/ Conflict(p, k, q)
    PROVE  Tidy(p)
<1>1. \E step \in Places : pc' = [pc EXCEPT ![p] = step]
  <2>1. \E step \in {"snapshot", "errored", "rehydrate"} : \E c : Go(p, step, c)
    <3>1. CASE \E r \in Runs, k \in Keys \cup {Null} : Create(p, r, k, q)
      BY <3>1 DEF Create
    <3>2. CASE \E k \in Keys : Repeat(p, k, q) \/ Conflict(p, k, q)
      BY <3>2 DEF Repeat, Conflict
    <3> QED  BY <3>1, <3>2
  <2> QED  BY <2>1 DEF Go, Places, Steps, LedgerSteps
<1> QED  BY <1>1 DEF Create, Repeat, Conflict, Tidy, TypeOK, storeVars

LEMMA LedgerTidy ==
    ASSUME TypeOK, NEW p,
           \/ Inspect(p) \/ Execute(p) \/ FinishDryRun(p) \/ Record(p) \/ Preview(p) \/ Await(p)
    PROVE  Tidy(p)
<1>1. UNCHANGED <<storeVars, fileVars>>
  BY DEF Inspect, Execute, FinishDryRun, Record, Preview, Await
<1>2. {"execute", "failing", "dry_run", "recheck", "write", "match_source", "await", "rehydrate"}
         \subseteq Places
  BY DEF Places, Steps, LedgerSteps
<1>3. \E step \in Places : \E c : Logged(p, step, c)
  <2>1. CASE Inspect(p)
    BY <2>1, <1>2 DEF Inspect
  <2>2. CASE Execute(p)
    BY <2>2, <1>2 DEF Execute
  <2>3. CASE Record(p)
    BY <2>3, <1>2 DEF Record
  <2>4. CASE FinishDryRun(p) \/ Preview(p)
    BY <2>4, <1>2 DEF FinishDryRun, Preview
  <2>5. CASE Await(p)
    BY <2>5, <1>2 DEF Await
  <2> QED  BY <2>1, <2>2, <2>3, <2>4, <2>5
<1> QED  BY <1>1, <1>3, LoggedTidy DEF Tidy, TypeOK, storeVars

LEMMA StoreTidy ==
    ASSUME TypeOK, NEW p \in Preparers,
           Write(p) \/ ConfirmWrite(p) \/ Crash(p)
    PROVE  Tidy(p)
<1>1. locked' \in [Runs -> Preparers \cup {Nothing}]
  BY DEF Write, ConfirmWrite, Crash, Publish, Confirm, Withdraw, DropLocks, TypeOK, storeVars
<1>2. faults' = faults \/ Fault
  BY DEF Write, ConfirmWrite, Crash
<1>3. \E step \in Places : pc' = [pc EXCEPT ![p] = step]
  <2>1. CASE Err(p)
    BY <2>1, HandledTidy DEF Err
  <2>2. CASE ~Err(p)
    BY <2>2 DEF Write, ConfirmWrite, Crash, Go, Places, Steps
  <2> QED  BY <2>1, <2>2
<1> QED  BY <1>1, <1>2, <1>3 DEF Tidy, Write, ConfirmWrite, Crash

LEMMA StillTidy ==
    ASSUME TypeOK, NEW p,
           \/ SnapshotSource(p) \/ ObserveDestination(p)
           \/ Recheck(p) \/ Reopen(p) \/ MatchSource(p) \/ MatchDestination(p) \/ Rehydrate(p)
           \/ Refused(p) \/ Stumble(p) \/ Failing(p) \/ RecordFailure(p) \/ Finish(p)
    PROVE  Tidy(p)
<1>1. \E step \in Places : pc' = [pc EXCEPT ![p] = step]
  <2>1. CASE Err(p) \/ Handled(p, FALSE)
    BY <2>1, HandledTidy DEF Err
  <2>2. CASE ~Err(p) /\ ~Handled(p, FALSE)
    BY <2>2 DEF SnapshotSource, ObserveDestination, Recheck, Reopen, MatchSource,
                MatchDestination, Rehydrate, Refused, Stumble,
                Failing, RecordFailure, Finish, Go, Places, Steps, LedgerSteps
  <2> QED  BY <2>1, <2>2
<1>2. UNCHANGED <<storeVars, fileVars>> /\ (faults' = faults \/ Fault)
  BY DEF SnapshotSource, ObserveDestination, Recheck, Reopen, MatchSource, MatchDestination,
         Rehydrate, Refused, Stumble, Failing, RecordFailure, Finish
<1> QED  BY <1>1, <1>2 DEF Tidy, TypeOK, storeVars

LEMMA ReadingTidy ==
    ASSUME TypeOK, NEW s, ReaderStep(s)
    PROVE  Tidy(s)
<1>1. CASE Finish(s)
  BY <1>1, StillTidy
<1>2. CASE ReadEffective(s) \/ \E r \in Runs : ReadRow(s, r)
  <2>1. \E step \in Places : pc' = [pc EXCEPT ![s] = step]
    BY <1>2 DEF ReadEffective, ReadRow, Go, Places
  <2> QED  BY <1>2, <2>1 DEF ReadEffective, ReadRow, Tidy, TypeOK, storeVars
<1>3. CASE Look(s)
  <2>1. \E step \in Places : pc' = [pc EXCEPT ![s] = step]
    BY <1>3 DEF Look, Answer, Go, Places
  <2> QED  BY <1>3, <2>1 DEF Look, Tidy, TypeOK, storeVars
<1> QED  BY <1>1, <1>2, <1>3 DEF ReaderStep

(* A candidate is in hand after the plan has run.                           *)
LEMMA MadeInHand ==
    ASSUME Coherent
    PROVE  \A p \in Preparers : pc[p] \in {"dry_run", "recheck"} => call[p].made \in Contents
<1> SUFFICES ASSUME NEW p \in Preparers, pc[p] \in {"dry_run", "recheck"}
             PROVE  call[p].made \in Contents
  OBVIOUS
<1>1. Owner(p) /\ Going(p)
  BY DEF Coherent, CallInv, Procs
<1>2. Owns(p)
  BY <1>1 DEF Owner, Owns, Steps, LedgerSteps
<1>3. ~Fails(p)
  BY <1>1, <1>2 DEF Owner, Fails, Writing
<1> QED  BY <1>1, <1>2, <1>3 DEF Going, Opening

LEMMA FaultTypes ==
    ASSUME TypeOK, faults' = faults \/ Fault, UNCHANGED changes
    PROVE  faults' \in Nat /\ changes' \in Nat /\ faults' + changes' <= MaxTroubles
  BY PipelineAssumption DEF TypeOK, Fault

LEMMA ChangeTypes ==
    ASSUME TypeOK, Change, UNCHANGED faults
    PROVE  /\ faults' \in Nat /\ changes' \in Nat /\ faults' + changes' <= MaxTroubles
           /\ changes + 1 \in 0..MaxTroubles
  BY PipelineAssumption DEF TypeOK, Change

LEMMA RewrittenTypes ==
    ASSUME NEW x \in Contents, changes + 1 \in 0..MaxTroubles,
           NEW file, file.id \in 0..MaxTroubles, NEW new \in Rewritten(file, x)
    PROVE  new \in [body : Contents, id : 0..MaxTroubles]
  BY DEF Rewritten

LEMMA TypesHold ==
    ASSUME TypeOK, Coherent', [Next]_vars
    PROVE  TypeOK'
<1>1. (\A p \in Preparers : pc[p] \in {"dry_run", "recheck"} => call[p].made \in Contents)'
  BY MadeInHand, PTL
<1>2. ASSUME NEW p \in Procs, Tidy(p)
      PROVE  TypeOK'
  <2>1. faults' \in Nat /\ changes' \in Nat /\ faults' + changes' <= MaxTroubles
    BY <1>2, FaultTypes DEF Tidy, fileVars
  <2>2. pc' \in [Preparers \cup Readers -> Steps \cup
                   {"idle", "replied", "errored", "effective", "look", "told", "accused"}]
    BY <1>2 DEF Tidy, TypeOK, Places, Procs
  <2> QED  BY <1>1, <1>2, <2>1, <2>2 DEF Tidy, TypeOK, fileVars
<1>3. ASSUME NEW p \in Preparers, PreparerStep(p)
      PROVE  TypeOK'
  <2>1. Tidy(p)
    <3>1. ASSUME NEW q \in Requests,
                 \/ \E r \in Runs, k \in Keys \cup {Null} : Create(p, r, k, q)
                 \/ \E k \in Keys : Repeat(p, k, q) \/ Conflict(p, k, q)
          PROVE  Tidy(p)
      BY <3>1, StartTidy
    <3>2. CASE SnapshotSource(p)
      BY <3>2, StillTidy
    <3>3. CASE ObserveDestination(p)
      BY <3>3, StillTidy
    <3>4. CASE \/ Inspect(p) \/ Execute(p) \/ FinishDryRun(p) \/ Record(p) \/ Preview(p)
               \/ Await(p)
      BY <3>4, LedgerTidy
    <3>5. CASE Write(p) \/ ConfirmWrite(p) \/ Crash(p)
      BY <3>5, StoreTidy
    <3>6. CASE \/ Recheck(p) \/ Reopen(p) \/ MatchSource(p) \/ MatchDestination(p)
               \/ Rehydrate(p) \/ Refused(p) \/ Stumble(p) \/ Failing(p)
               \/ RecordFailure(p) \/ Finish(p)
      BY <3>6, StillTidy
    <3> QED  BY <1>3, <3>1, <3>2, <3>3, <3>4, <3>5, <3>6 DEF PreparerStep
  <2> QED  BY <1>2, <2>1 DEF Procs
<1>4. ASSUME NEW s \in Readers, ReaderStep(s)
      PROVE  TypeOK'
  BY <1>2, <1>4, ReadingTidy DEF Procs
<1>5. CASE ChangeSource
  <2>1. PICK x \in Contents : source' \in Rewritten(source, x)
    BY <1>5 DEF ChangeSource
  <2>2. source' \in [body : Contents, id : 0..MaxTroubles]
    BY <1>5, <2>1, ChangeTypes, RewrittenTypes DEF ChangeSource, TypeOK
  <2> QED  BY <1>1, <1>5, <2>2, ChangeTypes DEF ChangeSource, TypeOK, storeVars, callVars
<1>6. CASE ChangeDestination
  <2>1. destination' \in [body : Contents \cup {Absent}, id : 0..MaxTroubles]
    <3>1. CASE destination' = [body |-> Absent, id |-> 0]
      BY <3>1, PipelineAssumption
    <3>2. CASE destination' # [body |-> Absent, id |-> 0]
      <4>1. PICK x \in Contents : destination' \in Rewritten(destination, x)
        BY <1>6, <3>2 DEF ChangeDestination
      <4>2. destination' \in [body : Contents, id : 0..MaxTroubles]
        BY <1>6, <4>1, ChangeTypes, RewrittenTypes DEF ChangeDestination, TypeOK
      <4> QED  BY <4>2
    <3> QED  BY <3>1, <3>2
  <2> QED  BY <1>1, <1>6, <2>1, ChangeTypes DEF ChangeDestination, TypeOK, storeVars, callVars
<1>7. ASSUME NEW r \in Runs, CancelRun(r) \/ GiveUp(r)
      PROVE  TypeOK'
  BY <1>1, <1>7 DEF CancelRun, GiveUp, storeVars, callVars, fileVars, TypeOK
<1>8. ASSUME NEW r \in Runs, NEW kind \in Kinds, DamageArtifact(r, kind)
      PROVE  TypeOK'
  BY <1>1, <1>8, FaultTypes DEF DamageArtifact, Damage, callVars, TypeOK
<1>9. CASE UNCHANGED vars
  BY <1>1, <1>9 DEF vars, storeVars, callVars, fileVars, TypeOK
<1> QED  BY <1>3, <1>4, <1>5, <1>6, <1>7, <1>8, <1>9 DEF Next, Environment

-----------------------------------------------------------------------------
LEMMA PipelineInit == Init => PipelineInv
<1> SUFFICES ASSUME Init PROVE PipelineInv
  OBVIOUS
<1>1. Shape
  BY DEF Init, LedgerInit, ArtifactInit, Shape, NoCall, CallFields, Procs
<1>2. ASSUME NEW r \in Runs PROVE RunInv(r)
  <2>1. /\ rows[r] = {} /\ state[r] = Null /\ evidence[r] = [f \in Fields |-> Null]
        /\ keys = [k \in Keys |-> Null]
    BY DEF Init, LedgerInit
  <2>2. RowHolds(r)
    BY <2>1, NullIsNoState DEF RowHolds, PreparedStates, Fields
  <2>3. ArtifactsHold(r) /\ Unborn(r)
    BY <2>1 DEF ArtifactsHold, Unborn
  <2>4. KeyHolds(r)
    BY <2>1 DEF KeyHolds
  <2> QED  BY <2>2, <2>3, <2>4 DEF RunInv
<1>3. \A p \in Procs : pc[p] = "idle"
  BY DEF Init, Procs
<1>4. (\A p \in Procs : CallInv(p)) /\ Alone
  BY <1>3 DEF CallInv, Alone, Owner, Going, Saw, Answering, Telling, Settled, Owns, Steps,
              LedgerSteps
<1>5. TypeOK
  BY <1>3, PipelineAssumption DEF Init, ArtifactInit, TypeOK, Procs
<1> QED  BY <1>1, <1>2, <1>4, <1>5 DEF PipelineInv, Coherent

LEMMA PipelineStep == PipelineInv /\ [Next]_vars => PipelineInv'
<1> SUFFICES ASSUME PipelineInv, [Next]_vars PROVE PipelineInv'
  OBVIOUS
<1>1. Coherent /\ TypeOK
  BY DEF PipelineInv
<1>2. Coherent'
  <2>1. CASE UNCHANGED vars
    BY <1>1, <2>1, FilesChange DEF vars, fileVars
  <2>2. CASE Next
    BY <1>1, <2>2, PreparerHolds, ReaderHolds, EnvironmentHolds DEF Next
  <2> QED  BY <2>1, <2>2
<1> QED  BY <1>1, <1>2, TypesHold DEF PipelineInv

LEMMA PipelineHolds == Spec => []PipelineInv
  BY PipelineInit, PipelineStep, PTL DEF Spec

-----------------------------------------------------------------------------
(* What PreparePipeline checks, for every instance.                         *)

(* Types: the files, the locks of the store, where each caller is, and a    *)
(* candidate in hand once the plan has run (engine.prepare).                *)
THEOREM PipelineTypeCorrect == Spec => []TypeOK
<1>1. PipelineInv => TypeOK
  BY DEF PipelineInv
<1> QED  BY <1>1, PipelineHolds, PTL

(* A preview that prepare answers with is of what its caller asked for,     *)
(* whoever prepared it and whatever was cancelled, reconciled, rewritten or *)
(* repeated meanwhile (engine.prepare, create_run with a key).              *)
THEOREM RepliesFitRequests == Spec => []ReplyFitsRequest
<1>1. PipelineInv => ReplyFitsRequest
  <2> SUFFICES ASSUME PipelineInv, NEW p \in Preparers, pc[p] = "replied"
               PROVE  LET c == call[p]
                          e == c.view.evidence
                      IN  /\ e.plan = c.request
                          /\ e.candidate = Edit[c.request][e.source]
                          /\ e = evidence[c.run]
                          /\ c.key # Null => keys[c.key] = [request |-> c.request, run |-> c.run]
    BY DEF ReplyFitsRequest
  <2> DEFINE c == call[p]
             e == c.view.evidence
  <2>1. Saw(p) /\ Answering(p) /\ Shape
    BY DEF PipelineInv, Coherent, CallInv, Procs
  <2>2. c.run \in Runs /\ e = [f \in Fields |-> e[f]] /\ \A f \in Fields : e[f] = evidence[c.run][f]
    BY <2>1 DEF Saw, Answering
  <2>3. evidence[c.run] = [f \in Fields |-> evidence[c.run][f]]
    BY <2>1, <2>2 DEF Shape
  <2>4. e = evidence[c.run]
    BY <2>2, <2>3
  <2> QED  BY <2>1, <2>4 DEF Answering
<1> QED  BY <1>1, PipelineHolds, PTL

(* The evidence a run asks approval for hangs together although the files   *)
(* it came from may change under every step: candidate and diff are of the  *)
(* bytes whose hash is in the row (engine.prepare).                         *)
THEOREM EvidenceIsCoherent == Spec => []EvidenceHangsTogether
<1>1. PipelineInv => EvidenceHangsTogether
  BY DEF PipelineInv, Coherent, RunInv, RowHolds, EvidenceHangsTogether
<1> QED  BY <1>1, PipelineHolds, PTL

(* An artifact the ledger knows can be read back unless another program     *)
(* damaged it: a failed or interrupted write, a withdrawn file and a        *)
(* second artifact never cost a recorded one (artifacts.ArtifactStore).     *)
THEOREM ArtifactsStayReadable == Spec => []RecordedArtifactsReadable
<1>1. PipelineInv => RecordedArtifactsReadable
  BY DEF PipelineInv, Coherent, RunInv, ArtifactsHold, RecordedArtifactsReadable
<1> QED  BY <1>1, PipelineHolds, PTL

(* A prepare that answers with an error has settled its run, unless         *)
(* recording the failure failed as well (engine._fail).                     *)
THEOREM ErrorsSettleRuns == Spec => []ErrorSettlesRun
<1>1. PipelineInv => ErrorSettlesRun
  BY DEF PipelineInv, Coherent, CallInv, Settled, ErrorSettlesRun, Procs
<1> QED  BY <1>1, PipelineHolds, PTL

(* A status query that answers calls only damaged artifacts corrupt, and    *)
(* shows a prepared run with the evidence it has, although it reads in four *)
(* steps between those of a prepare (surface.WorkflowSurface.status).       *)
THEOREM StatusTellsTruth == Spec => []StatusToldTrue
<1>1. PipelineInv => StatusToldTrue
  <2> SUFFICES ASSUME PipelineInv, NEW s \in Readers, pc[s] = "told"
               PROVE  LET c == call[s]
                      IN  /\ \A kind \in DOMAIN c.found :
                                c.found[kind] = "corrupt" => <<c.run, kind>> \in damaged
                          /\ c.effective \in PreparedStates => c.view.evidence = evidence[c.run]
    BY DEF StatusToldTrue
  <2> DEFINE c == call[s]
             e == c.view.evidence
  <2>1. Saw(s) /\ Telling(s) /\ Shape
    BY DEF PipelineInv, Coherent, CallInv, Procs
  <2>2. CASE c.effective \in PreparedStates
    <3>1. /\ c.run \in Runs /\ e = [f \in Fields |-> e[f]]
          /\ \A f \in Fields : e[f] = evidence[c.run][f]
      BY <2>1, <2>2 DEF Saw, Telling
    <3>2. evidence[c.run] = [f \in Fields |-> evidence[c.run][f]]
      BY <2>1, <3>1 DEF Shape
    <3>3. e = evidence[c.run]
      BY <3>1, <3>2
    <3> QED  BY <2>1, <3>3 DEF Telling
  <2>3. CASE c.effective \notin PreparedStates
    BY <2>1, <2>3 DEF Telling
  <2> QED  BY <2>2, <2>3
<1> QED  BY <1>1, PipelineHolds, PTL

-----------------------------------------------------------------------------
(* The prepare pipeline implements the run ledger: every step of a prepare, *)
(* of a status query and of everybody else is one operation of              *)
(* WorkflowLedger, with values in its domain, or leaves the ledger alone.   *)
(* So every theorem of WorkflowLedgerProofs holds of the pipeline.          *)

-----------------------------------------------------------------------------
(* The inductive invariant, beside PipelineInv.                             *)

(* A row is at revision 1 when it is inserted.                              *)
RowsBorn == \A r \in Runs : state[r] # Null => revision[r] >= 1

(* The destination a prepare is about to record was observed by it.         *)
SampledOf(p) == pc[p] = "inspect" => call[p].prior.body \in Contents \cup {Absent}
Sampled == \A p \in Procs : SampledOf(p)

WritesInv == PipelineInv /\ LedgerTypeOK /\ RowsBorn /\ Sampled

-----------------------------------------------------------------------------
LEMMA CasFits ==
    ASSUME LedgerTypeOK, RowsBorn, NEW r \in Runs, NEW s \in States, NEW v, Cas(r, s, v)
    PROVE  v \in 1..MaxRevision
  BY NullIsNoState DEF LedgerTypeOK, RowsBorn, Cas

(* A mutation of a row is a step of the ledger.                             *)
LEMMA RowMutation ==
    ASSUME LedgerTypeOK, RowsBorn, NEW r \in Runs, NEW s, NEW v, Cas(r, s, v), s # Null,
           PrepareStep(r, s, v) \/ DecisionStep(r, s, v)
    PROVE  LedgerNext
<1>1. s \in States
  BY DEF Cas, LedgerTypeOK
<1> QED  BY <1>1, CasFits DEF LedgerNext

LEMMA BornKept ==
    ASSUME LedgerTypeOK, RowsBorn, [LedgerNext]_ledgerVars
    PROVE  RowsBorn'
<1>1. CASE UNCHANGED ledgerVars
  BY <1>1 DEF RowsBorn, ledgerVars
<1>2. CASE Tick
  BY <1>2 DEF RowsBorn, Tick
<1>3. ASSUME NEW r \in Runs, CreateStep(r)
      PROVE  RowsBorn'
  BY <1>3 DEF RowsBorn, CreateStep, CreateRun, CreateKeyedRun, InsertRun, LedgerTypeOK
<1>4. ASSUME NEW r \in Runs, RowStep(r)
      PROVE  RowsBorn'
  <2>1. revision'[r] = revision[r] + 1 /\ revision[r] \in Nat
    BY <1>4, AdvanceRows DEF RowStep, LedgerTypeOK
  <2>2. \A q \in Runs \ {r} : state'[q] = state[q] /\ revision'[q] = revision[q]
    BY <1>4, AdvanceRows DEF RowStep
  <2> QED  BY <2>1, <2>2 DEF RowsBorn
<1>5. ASSUME NEW r \in Runs, NEW s \in States, NEW v \in 1..MaxRevision,
             NEW type \in TerminalAudits, PruneAudit(r, s, v, type)
      PROVE  RowsBorn'
  <2>1. revision[r] \in Nat
    BY DEF LedgerTypeOK
  <2> QED  BY <1>5, <2>1, PruneShape DEF RowsBorn
<1> QED  BY <1>1, <1>2, <1>3, <1>4, <1>5, StepShape

-----------------------------------------------------------------------------
(* What a call records.                                                     *)

LEMMA WorkingCall ==
    ASSUME PipelineInv, NEW p \in Preparers, pc[p] \in LedgerSteps \cup {"observe"}
    PROVE  /\ Owner(p) /\ Going(p) /\ Owns(p) /\ call[p].run \in Runs
           /\ ~(pc[p] = "record" /\ call[p].kind = "failure_evidence") => ~Fails(p)
<1>1. Owner(p) /\ Going(p)
  BY DEF PipelineInv, Coherent, CallInv, Procs
<1>2. Owns(p)
  BY <1>1 DEF Owner, Owns, Steps, LedgerSteps
<1> QED  BY <1>1, <1>2 DEF Owner, Fails, Writing, LedgerSteps

LEMMA InspectWrites ==
    ASSUME WritesInv, NEW p \in Preparers, Inspect(p)
    PROVE  LedgerNext
<1> DEFINE c == call[p]
           x == [source |-> c.source.body, prior |-> c.prior.body]
<1>1. /\ c.run \in Runs /\ c.source.body \in Contents
      /\ c.prior.body \in Contents \cup {Absent}
  BY WorkingCall DEF WritesInv, Sampled, SampledOf, Procs, Inspect, LedgerSteps, Going
<1>2. x \in [{"source", "prior"} -> Values]
  BY <1>1, DigestsAssumption
<1>3. SourceInspected(c.run, "preparing", c.v, x)
  BY DEF Inspect
<1>4. PrepareStep(c.run, "preparing", c.v) /\ Cas(c.run, "preparing", c.v)
  BY <1>2, <1>3 DEF PrepareStep, SourceInspected, AppendEvidence
<1> QED  BY <1>1, <1>4, RowMutation, NullIsNoState DEF WritesInv, States

LEMMA ExecuteWrites ==
    ASSUME WritesInv, NEW p \in Preparers, Execute(p)
    PROVE  LedgerNext
<1> DEFINE c == call[p]
           x == [plan |-> c.request]
<1>1. c.run \in Runs /\ c.request \in Requests
  BY WorkingCall DEF WritesInv, Execute, LedgerSteps, Going, Keyed
<1>2. x \in [{"plan"} -> Values]
  BY <1>1, DigestsAssumption
<1>3. PlanNormalized(c.run, "preparing", c.v, x)
  BY DEF Execute
<1>4. PrepareStep(c.run, "preparing", c.v) /\ Cas(c.run, "preparing", c.v)
  BY <1>2, <1>3 DEF PrepareStep, PlanNormalized, AppendEvidence
<1> QED  BY <1>1, <1>4, RowMutation, NullIsNoState DEF WritesInv, States

LEMMA RecordWrites ==
    ASSUME WritesInv, NEW p \in Preparers, Record(p)
    PROVE  LedgerNext
<1> DEFINE c == call[p]
           x == [kind \in {c.kind} |-> BodyOf(c)]
<1>1. /\ c.run \in Runs /\ c.request \in Requests /\ c.kind \in {"candidate", "diff"}
      /\ c.source.body \in Contents /\ c.made \in Contents
  BY WorkingCall DEF WritesInv, Record, LedgerSteps, Going, Keyed, Opening
<1>2. BodyOf(c) \in Values
  <2>1. [source |-> c.source.body, plan |-> c.request, candidate |-> c.made]
           \in [source : Contents, plan : Requests, candidate : Contents]
    BY <1>1
  <2> QED  BY <1>1, <2>1, DigestsAssumption DEF BodyOf
<1>3. x \in [{c.kind} -> Values]
  BY <1>2
<1>4. RecordArtifact(c.run, "preparing", c.v, c.kind, x)
  BY DEF Record
<1>5. PrepareStep(c.run, "preparing", c.v)
  BY <1>1, <1>3, <1>4 DEF PrepareStep
<1>6. Cas(c.run, "preparing", c.v)
  BY <1>4 DEF RecordArtifact
<1> QED  BY <1>1, <1>5, <1>6, RowMutation, NullIsNoState DEF WritesInv, States

(* The rest of a prepare's mutations record nothing.                        *)
LEMMA OthersWrite ==
    ASSUME WritesInv, NEW p \in Preparers,
           FinishDryRun(p) \/ Preview(p) \/ Await(p) \/ RecordFailure(p)
    PROVE  LedgerNext
<1> DEFINE c == call[p]
<1>1. c.run \in Runs
  BY WorkingCall DEF WritesInv, FinishDryRun, Preview, Await, RecordFailure, LedgerSteps
<1>2. \/ DryRunCompleted(c.run, "preparing", c.v) \/ PreviewPersisted(c.run, "preparing", c.v)
      \/ AwaitApproval(c.run, "preparing", c.v) \/ RecordPrepareFailure(c.run, "preparing", c.v)
  BY DEF FinishDryRun, Preview, Await, RecordFailure
<1>3. PrepareStep(c.run, "preparing", c.v)
  BY <1>2 DEF PrepareStep
<1>4. Cas(c.run, "preparing", c.v)
  BY <1>2 DEF DryRunCompleted, AppendEvidence, PreviewPersisted, AwaitApproval, Transition,
              RecordPrepareFailure
<1> QED  BY <1>1, <1>3, <1>4, RowMutation, NullIsNoState DEF WritesInv, States

LEMMA CreateWrites ==
    ASSUME NEW p, NEW q \in Requests, NEW r \in Runs, NEW k \in Keys \cup {Null},
           Create(p, r, k, q)
    PROVE  LedgerNext
<1>1. CreateStep(r)
  BY DEF Create, CreateStep
<1> QED  BY <1>1 DEF LedgerNext

(* A cancel or a reconcile.                                                 *)
LEMMA EndWrites ==
    ASSUME WritesInv, NEW r \in Runs, CancelRun(r) \/ GiveUp(r)
    PROVE  LedgerNext
<1>1. PICK s, v : /\ s = state[r] /\ v = revision[r]
                  /\ Cancel(r, s, v) \/ ReconcilePreparing(r, s, v)
  BY DEF CancelRun, GiveUp
<1>2. Cas(r, s, v) /\ (\E to : <<s, to>> \in LegalTransitions)
  BY <1>1 DEF Cancel, ReconcilePreparing, Transition
<1>3. s # Null
  BY <1>2, NullIsNoState DEF LegalTransitions, States, Terminal
<1>4. PrepareStep(r, s, v) \/ DecisionStep(r, s, v)
  BY <1>1 DEF PrepareStep, DecisionStep
<1> QED  BY <1>2, <1>3, <1>4, RowMutation DEF WritesInv

(* Every step is one of these or leaves the ledger alone.                   *)
LEMMA StepsAreLedgerSteps ==
    ASSUME WritesInv, [Next]_vars
    PROVE  [LedgerNext]_ledgerVars
<1>1. CASE UNCHANGED vars
  BY <1>1 DEF vars
<1>2. ASSUME NEW p \in Preparers, PreparerStep(p)
      PROVE  [LedgerNext]_ledgerVars
  <2>1. CASE \E q \in Requests, r \in Runs, k \in Keys \cup {Null} : Create(p, r, k, q)
    BY <2>1, CreateWrites
  <2>2. CASE Inspect(p) \/ Execute(p) \/ Record(p)
    BY <2>2, InspectWrites, ExecuteWrites, RecordWrites
  <2>3. CASE FinishDryRun(p) \/ Preview(p) \/ Await(p) \/ RecordFailure(p)
    BY <2>3, OthersWrite
  <2>4. CASE \/ \E q \in Requests, k \in Keys : Repeat(p, k, q) \/ Conflict(p, k, q)
             \/ SnapshotSource(p) \/ ObserveDestination(p) \/ Recheck(p)
             \/ Write(p) \/ ConfirmWrite(p) \/ Reopen(p)
    BY <2>4 DEF Repeat, Conflict, SnapshotSource, ObserveDestination, Recheck, Write,
                ConfirmWrite, Reopen
  <2>5. CASE \/ MatchSource(p) \/ MatchDestination(p) \/ Rehydrate(p) \/ Refused(p)
             \/ Stumble(p) \/ Failing(p) \/ Finish(p) \/ Crash(p)
    BY <2>5 DEF MatchSource, MatchDestination, Rehydrate, Refused, Stumble, Failing, Finish,
                Crash
  <2> QED  BY <1>2, <2>1, <2>2, <2>3, <2>4, <2>5 DEF PreparerStep
<1>3. ASSUME NEW s \in Readers, ReaderStep(s)
      PROVE  UNCHANGED ledgerVars
  BY <1>3 DEF ReaderStep, ReadRow, ReadEffective, Look, Finish
<1>4. CASE Environment
  BY <1>4, EndWrites DEF Environment, ChangeSource, ChangeDestination, DamageArtifact
<1> QED  BY <1>1, <1>2, <1>3, <1>4 DEF Next

-----------------------------------------------------------------------------
(* Only an observation leads to the step that records it.                   *)

(* A step of p other than an observation.                                   *)
Elsewhere(p) == \E step, c : step # "inspect" /\ Go(p, step, c)

LEMMA HandledElsewhere ==
    ASSUME NEW p, NEW lost, Handled(p, lost)
    PROVE  Elsewhere(p)
  BY DEF Handled, Elsewhere

LEMMA LoggedElsewhere ==
    ASSUME NEW p, NEW step, NEW c, step # "inspect", Logged(p, step, c)
    PROVE  Elsewhere(p)
<1>1. CASE Err(p)
  BY <1>1, HandledElsewhere DEF Err
<1>2. CASE ~Err(p)
  BY <1>2 DEF Logged, Elsewhere
<1> QED  BY <1>1, <1>2

LEMMA StepsElsewhere ==
    ASSUME NEW p, PreparerStep(p), ~ObserveDestination(p)
    PROVE  Elsewhere(p)
<1>1. CASE Err(p) \/ Handled(p, FALSE)
  BY <1>1, HandledElsewhere DEF Err
<1>2. CASE \/ \E q \in Requests, r \in Runs, k \in Keys \cup {Null} : Create(p, r, k, q)
           \/ \E q \in Requests, k \in Keys : Repeat(p, k, q) \/ Conflict(p, k, q)
  BY <1>2 DEF Create, Repeat, Conflict, Elsewhere
<1>3. CASE ~Err(p) /\ ~Handled(p, FALSE) /\
           \/ SnapshotSource(p) \/ Recheck(p) \/ Write(p) \/ ConfirmWrite(p) \/ Reopen(p)
           \/ MatchSource(p) \/ MatchDestination(p) \/ Rehydrate(p)
  BY <1>3 DEF SnapshotSource, Recheck, Write, ConfirmWrite, Reopen, MatchSource,
              MatchDestination, Rehydrate, Elsewhere
<1>4. CASE ~Err(p) /\ ~Handled(p, FALSE) /\
           \/ Refused(p) \/ Stumble(p) \/ Failing(p) \/ RecordFailure(p) \/ Finish(p) \/ Crash(p)
  BY <1>4 DEF Refused, Stumble, Failing, RecordFailure, Finish, Crash, Elsewhere
<1>5. CASE Inspect(p) \/ Execute(p)
  BY <1>5, LoggedElsewhere DEF Inspect, Execute
<1>6. CASE FinishDryRun(p) \/ Record(p) \/ Preview(p) \/ Await(p)
  BY <1>6, LoggedElsewhere DEF FinishDryRun, Record, Preview, Await
<1> QED  BY <1>1, <1>2, <1>3, <1>4, <1>5, <1>6 DEF PreparerStep

LEMMA ReadersElsewhere ==
    ASSUME NEW s, ReaderStep(s)
    PROVE  Elsewhere(s)
  BY DEF ReaderStep, ReadRow, ReadEffective, Look, Answer, Finish, Elsewhere

LEMMA SampledKept ==
    ASSUME PipelineInv, Sampled, [Next]_vars
    PROVE  Sampled'
<1>1. Shape /\ TypeOK
  BY DEF PipelineInv, Coherent
<1>2. CASE UNCHANGED <<pc, call>>
  BY <1>2 DEF Sampled, SampledOf
<1>3. ASSUME NEW p \in Procs, Elsewhere(p)
      PROVE  Sampled'
  <2>1. PICK step, c : step # "inspect" /\ Go(p, step, c)
    BY <1>3 DEF Elsewhere
  <2>2. pc'[p] # "inspect" /\ \A o \in Procs \ {p} : pc'[o] = pc[o] /\ call'[o] = call[o]
    BY <1>1, <2>1 DEF Go, Shape
  <2> QED  BY <2>2 DEF Sampled, SampledOf
<1>4. ASSUME NEW p \in Procs, ObserveDestination(p)
      PROVE  Sampled'
  <2>1. DOMAIN call[p] = CallFields /\ destination.body \in Contents \cup {Absent}
    BY <1>1 DEF Shape, TypeOK
  <2>2. call'[p].prior = destination
    BY <1>1, <1>4, <2>1 DEF ObserveDestination, Go, Shape, CallFields
  <2>3. \A o \in Procs \ {p} : pc'[o] = pc[o] /\ call'[o] = call[o]
    BY <1>1, <1>4 DEF ObserveDestination, Go, Shape
  <2> QED  BY <2>1, <2>2, <2>3 DEF Sampled, SampledOf
<1>5. CASE Environment
  BY <1>2, <1>5 DEF Environment, ChangeSource, ChangeDestination, CancelRun, GiveUp,
                    DamageArtifact, callVars
<1>6. CASE UNCHANGED vars
  BY <1>2, <1>6 DEF vars, callVars
<1> QED  BY <1>3, <1>4, <1>5, <1>6, StepsElsewhere, ReadersElsewhere DEF Next, Procs

-----------------------------------------------------------------------------
LEMMA WritesHold == Spec => []WritesInv
<1>1. Init => WritesInv
  <2> SUFFICES ASSUME Init PROVE WritesInv
    OBVIOUS
  <2>1. LedgerTypeOK
    BY LedgerAssumption DEF Init, LedgerInit, LedgerTypeOK, NoApproval, ApprovalType, NoExpiry
  <2>2. RowsBorn /\ Sampled
    BY DEF Init, LedgerInit, RowsBorn, Sampled, SampledOf, Procs
  <2> QED  BY <2>1, <2>2, PipelineInit DEF WritesInv
<1>2. WritesInv /\ [Next]_vars => WritesInv'
  <2> SUFFICES ASSUME WritesInv, [Next]_vars PROVE WritesInv'
    OBVIOUS
  <2>1. [LedgerNext]_ledgerVars
    BY StepsAreLedgerSteps
  <2> QED  BY <2>1, TypesKept, BornKept, SampledKept, PipelineStep DEF WritesInv
<1> QED  BY <1>1, <1>2, PTL DEF Spec

(* The pipeline implements the run ledger: preparing, asking for the        *)
(* status, cancelling, reconciling and crashing write nothing that is not   *)
(* one operation of it (engine.prepare over ledger.py).                     *)
THEOREM PreparesAreLedgerSteps == Spec => LedgerSpec
<1>1. Init => LedgerInit
  BY DEF Init
<1>2. WritesInv /\ [Next]_vars => [LedgerNext]_ledgerVars
  BY StepsAreLedgerSteps
<1> QED  BY <1>1, <1>2, WritesHold, PTL DEF Spec, LedgerSpec

(* So an audit finds nothing wrong with a ledger however its prepares were  *)
(* interrupted, cancelled, repeated or failed (ledger.verify_integrity).    *)
THEOREM PreparesPassAudit == Spec => []VerifierAccepts
  BY PreparesAreLedgerSteps, AuditIsQuiet

(* No run is reached by two keys, however its key is retried (create_run).  *)
THEOREM RetriesNameOneRun == Spec => []OneRunPerKey
  BY PreparesAreLedgerSteps, KeysNameOneRun

=============================================================================
