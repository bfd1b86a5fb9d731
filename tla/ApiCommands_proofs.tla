------------------------- MODULE ApiCommands_proofs -------------------------
(***************************************************************************)
(* Proofs about the API's use cases: for every set of requests, threads    *)
(* and bounds, the answers clients get and the answers kept under their    *)
(* keys are true of the store, nobody is told two outcomes, one key has    *)
(* one effect, a binding is final and a plan only moves forward.           *)
(*                                                                         *)
(* The argument: nothing durable is taken back (StoreKept); a thread that  *)
(* has reserved a key is the only one past the reservation, and only it    *)
(* changes the reserved record or queues its command (Discipline); what a  *)
(* thread is about to answer is Justified by the store; and every record   *)
(* under a key holds an answer that is Justified, or says that there is    *)
(* none yet.                                                               *)
(***************************************************************************)
EXTENDS ApiCommands, FiniteSetTheorems, SequenceTheorems, TLAPS

Reserving == {"prepare"} \cup Executions

\* The durable state as one value.
store == [idem |-> idem, runs |-> runs, roots |-> roots, runRev |-> runRev,
          selections |-> selections, imports |-> imports, registry |-> registry,
          review |-> review, history |-> history, plan |-> plan,
          truth |-> truth, scheduled |-> scheduled, queue |-> queue]

Under(r, S) == S.idem[Scope(r)]

\* What a review request adds to the history, and what it is told.
ReviewEntry(r) ==
    [rev |-> r.body.expected + 1, by |-> Scope(r), decision |-> r.body.decision]
ReviewTold(r) == Answer("REVIEW", <<r.body.expected + 1, r.body.decision>>)

\* The outcomes the use case of r may tell, with the effect that must be there.
Justified(r, a, S) ==
    \/ r.kind = "create" /\ a = Answer("RUN", ResourceId(r)) /\ ResourceId(r) \in S.runs
    \/ /\ r.kind = "import" /\ a = Answer("SOURCE", ResourceId(r))
       /\ ResourceId(r) \in S.registry \cap S.imports
    \/ /\ r.kind \in Binds /\ a = Answer("BOUND", SelectionId(r))
       /\ SelectionId(r) \in S.roots \cap S.selections
    \/ /\ r.kind \in Reviews /\ a = ReviewTold(r)
       /\ r.body.expected + 1 \in 1 .. Len(S.history)
       /\ S.history[r.body.expected + 1] = ReviewEntry(r)
    \/ /\ r.kind = "prepare" /\ a = Answer("READY", <<r.body.intent>>)
       /\ S.plan # NoPlan /\ S.plan.intent = r.body.intent
    \/ r.kind = "prepare" /\ a = Answer("BLOCKED", <<"EXISTING_PLAN">>)
    \/ /\ r.kind \in Executions /\ a = Answer("ACCEPTED", CommandId(r))
       /\ CommandId(r) \in S.queue
    \/ /\ r.kind \in Executions /\ a = Answer("BLOCKED", CommandId(r))
       /\ CommandId(r) \notin S.queue

\* An outcome told to r; a reserved key must have it by then.
AnswerOK(r, a, S) ==
    /\ Justified(r, a, S)
    /\ r.kind \in Reserving => Under(r, S) = Record("COMPLETED", r, a)

\* What a replay of r finds under its key.
RecordOK(r, S) ==
    LET rec == Under(r, S) IN
    rec.state # "ABSENT" /\ rec.fp = r.body =>
       \/ /\ rec.state = "COMPLETED" /\ Justified(r, rec.answer, S)
          /\ rec = Record("COMPLETED", r, rec.answer)
       \/ /\ r.kind \in Reserving /\ rec.state = "RESERVED"
          /\ rec.answer = IF r.kind = "prepare" THEN Nothing ELSE Unknown(r)
       \/ r.kind \in Executions /\ rec.state = "UNKNOWN" /\ rec.answer = Unknown(r)

-----------------------------------------------------------------------------
(* Parts of the store.                                                     *)

IdemOK(S) ==
    /\ DOMAIN S.idem = Scopes
    /\ \A k \in Scopes : S.idem[k].state \in {"ABSENT", "RESERVED", "COMPLETED", "UNKNOWN"}

\* A run or a command has the request that made it, under its key.
RunsOK(S) ==
    \A id \in S.runs : \E r \in Requests :
       /\ r.kind = "create" /\ id = ResourceId(r)
       /\ Under(r, S).state # "ABSENT" /\ Under(r, S).fp = r.body
QueueOK(S) ==
    \A c \in S.queue : \E r \in Requests :
       /\ r.kind \in Executions /\ c = CommandId(r)
       /\ Under(r, S).state # "ABSENT" /\ Under(r, S).fp = r.body

RootsOK(S) == S.runRev \in Nat /\ (S.roots = {} \/ \E r \in Requests : S.roots = {SelectionId(r)})

Decisions == {r.body.decision : r \in {q \in Requests : q.kind \in Reviews}}
Entries == [rev : Nat, by : Scopes, decision : Decisions]

HistoryOK(S) ==
    /\ S.history \in Seq(Entries)
    /\ S.review.rev = Len(S.history)
    /\ \A i \in 1 .. Len(S.history) : /\ S.history[i].rev = i
                                      /\ S.idem[S.history[i].by].state # "ABSENT"
    /\ \A i, j \in 1 .. Len(S.history) : S.history[i].by = S.history[j].by => i = j

\* The decisions a plan may hold in each phase.
PlanSound(p, facts) ==
    /\ p \in Plan
    /\ p.phase = "BOOTSTRAP" => p.matching = "pending" /\ p.er = "pending"
    /\ p.phase # "BOOTSTRAP" => p.matching = MatchingDecision(facts)
    /\ p.phase = "SOURCE_RESOLVED" => p.er = "pending"

PlansOK(S) ==
    /\ S.truth \in Truth
    /\ S.plan = NoPlan => S.truth.done = {} /\ S.scheduled = {}
    /\ S.plan # NoPlan => PlanSound(S.plan, S.truth) /\ S.scheduled \subseteq Selected(S.plan)

StoreOK(S) ==
    /\ IdemOK(S) /\ RunsOK(S) /\ QueueOK(S) /\ RootsOK(S) /\ HistoryOK(S)
    /\ PlansOK(S)
    /\ S.registry \subseteq S.imports
    /\ \A r \in Requests : RecordOK(r, S)

-----------------------------------------------------------------------------
(* Threads.                                                                *)

\* A thread between the reservation of its key and the answer kept there.
Owns(me) == me.pc \in {"plan_read", "plan_register", "submit", "complete"}

IsThread(me) ==
    me = [pc |-> me.pc, req |-> me.req, rev |-> me.rev, roots |-> me.roots,
          plan |-> me.plan, answer |-> me.answer]

KindOK(me) ==
    LET r == me.req IN
    /\ me.pc # "idle" => r \in Requests
    /\ me.pc = "create" => r.kind = "create"
    /\ me.pc \in {"import_lookup", "import_file", "import_register", "import_record"} =>
          r.kind = "import"
    /\ me.pc \in {"bind_read", "bind_lookup", "bind_publish", "bind_run", "bind_record"} =>
          r.kind \in Binds
    /\ me.pc \in {"review_read", "review_record"} => r.kind \in Reviews
    /\ me.pc \in {"reserve", "complete"} => r.kind \in Reserving
    /\ me.pc \in {"plan_read", "plan_register"} => r.kind = "prepare"
    /\ me.pc = "submit" => r.kind \in Executions
    /\ me.pc \in {"advance_read", "advance_write"} => r.kind = "advance"

\* A copy of the run row is what the row was at its revision.
CopyOK(me, S) ==
    LET id == SelectionId(me.req) IN
    /\ me.pc \in {"bind_lookup", "bind_publish", "bind_run"} =>
          /\ me.rev \in Nat /\ me.rev <= S.runRev
          /\ me.rev = S.runRev => S.roots = me.roots
          /\ me.roots # {} => S.roots = me.roots
    /\ me.pc \in {"bind_publish", "bind_run"} => me.roots = {} \/ id \in me.roots
    /\ me.pc = "bind_run" => id \in S.selections
    /\ me.pc = "bind_record" => id \in S.roots \cap S.selections

ThreadOK(me, S) ==
    LET r == me.req IN
    /\ IsThread(me) /\ KindOK(me) /\ CopyOK(me, S)
    /\ me.pc = "import_register" => ResourceId(r) \in S.imports
    /\ me.pc = "import_record" => ResourceId(r) \in S.registry \cap S.imports
    /\ Owns(me) => Under(r, S).state = "RESERVED" /\ Under(r, S).fp = r.body
    /\ me.pc = "submit" => CommandId(r) \notin S.queue
    /\ me.pc = "plan_register" =>
          PlanSound(me.plan, S.truth) /\ me.plan.intent = r.body.intent
    /\ me.pc = "complete" => Justified(r, me.answer, S)
    /\ me.pc \in {"advance_read", "advance_write"} => S.plan # NoPlan
    /\ me.pc = "reply" /\ me.answer.code \in Definite => AnswerOK(r, me.answer, S)

OwnersDiffer ==
    \A t, u \in Threads :
       t # u /\ Owns(thread[t]) /\ Owns(thread[u]) =>
          Scope(thread[t].req) # Scope(thread[u].req)

ApiInv ==
    /\ sent \in ApiScenarios
    /\ apiFaults \in 0 .. MaxApiFaults
    /\ thread = [t \in Threads |-> thread[t]]
    /\ DOMAIN answers = Requests
    /\ StoreOK(store)
    /\ \A t \in Threads : ThreadOK(thread[t], store)
    /\ OwnersDiffer
    /\ \A r \in Requests : \A a \in answers[r] : AnswerOK(r, a, store)

-----------------------------------------------------------------------------
(* Identities.                                                             *)

LEMMA ScopeIn ==
    ASSUME NEW r \in Requests
    PROVE  Scope(r) \in Scopes
  BY DEF Scopes

LEMMA SameScope ==
    ASSUME NEW r \in Requests, NEW q \in Requests, Scope(r) = Scope(q)
    PROVE  /\ r.kind = q.kind /\ r.who = q.who /\ r.key = q.key
           /\ r.body = q.body => r = q
  BY ApiAssumption DEF Scope, Request

LEMMA SameCommand ==
    ASSUME NEW r \in Requests, NEW q \in Requests, CommandId(r) = CommandId(q)
    PROVE  r = q
  <1>1. Scope(r) = Scope(q) /\ r.body = q.body
    BY DEF CommandId
  <1>2. QED
    BY <1>1, SameScope

LEMMA Kinds ==
    ASSUME NEW r \in Requests
    PROVE  /\ r.kind \in {"create", "import", "prepare", "advance", "bind", "bind_set",
                          "review", "invalidate", "submit", "resume", "cancel"}
           /\ r.kind \in Reviews => r.body.expected \in Nat
           /\ r.kind = "prepare" => r.body.intent \in Intent
  BY ApiAssumption DEF Binds, Reviews, Executions

-----------------------------------------------------------------------------
(* What no step takes back.                                                *)

StoreKept(S, T) ==
    /\ \A k \in Scopes : S.idem[k].state # "ABSENT" =>
          T.idem[k].state # "ABSENT" /\ T.idem[k].fp = S.idem[k].fp
    /\ \A k \in Scopes : S.idem[k].state = "COMPLETED" => T.idem[k] = S.idem[k]
    /\ S.runs \subseteq T.runs /\ S.registry \subseteq T.registry
    /\ S.imports \subseteq T.imports /\ S.selections \subseteq T.selections
    /\ S.queue \subseteq T.queue
    /\ S.roots # {} => T.roots = S.roots
    /\ S.runRev <= T.runRev /\ (T.runRev = S.runRev => T.roots = S.roots)
    /\ Len(S.history) <= Len(T.history)
    /\ \A i \in 1 .. Len(S.history) : T.history[i] = S.history[i]
    /\ S.plan # NoPlan => T.plan # NoPlan /\ T.plan.intent = S.plan.intent
    /\ T.truth.sources = S.truth.sources

\* Only the thread that has reserved a key changes the reserved record, and
\* only it queues the command.
Discipline(S, T, me) ==
    /\ \A k \in Scopes : S.idem[k].state = "RESERVED" /\ T.idem[k] # S.idem[k] =>
          Owns(me) /\ Scope(me.req) = k
    /\ \A r \in Requests : CommandId(r) \in T.queue /\ CommandId(r) \notin S.queue =>
          Owns(me) /\ Scope(me.req) = Scope(r)

\* No command of r is queued behind an answer that says it is not.
LEMMA JustifiedStable ==
    ASSUME NEW S, NEW T, NEW r \in Requests, NEW a, Justified(r, a, S),
           StoreKept(S, T), HistoryOK(S), HistoryOK(T),
           r.kind \in Executions /\ CommandId(r) \in T.queue => CommandId(r) \in S.queue
    PROVE  Justified(r, a, T)
  <1>1. Len(S.history) \in Nat /\ Len(T.history) \in Nat
    BY DEF HistoryOK
  <1>2. CASE /\ r.kind \in Reviews /\ a = ReviewTold(r)
             /\ r.body.expected + 1 \in 1 .. Len(S.history)
             /\ S.history[r.body.expected + 1] = ReviewEntry(r)
    <2>1. r.body.expected + 1 \in 1 .. Len(T.history)
      BY <1>1, <1>2 DEF StoreKept
    <2>2. T.history[r.body.expected + 1] = ReviewEntry(r)
      BY <1>2 DEF StoreKept
    <2>3. QED
      BY <1>2, <2>1, <2>2 DEF Justified
  <1>3. CASE ~(r.kind \in Reviews)
    BY <1>3 DEF Justified, StoreKept
  <1>4. QED
    BY <1>2, <1>3 DEF Justified, Reviews, Binds, Executions

LEMMA AnswerStable ==
    ASSUME NEW S, NEW T, NEW r \in Requests, NEW a, AnswerOK(r, a, S),
           StoreKept(S, T), HistoryOK(S), HistoryOK(T), NEW me,
           Owns(me) => me.req \in Requests /\ Under(me.req, S).state = "RESERVED",
           Discipline(S, T, me)
    PROVE  AnswerOK(r, a, T)
  <1>1. r.kind \in Reserving => Under(r, S).state = "COMPLETED"
    BY DEF AnswerOK, Record
  <1>2. r.kind \in Reserving => Under(r, T) = Under(r, S)
    BY <1>1, ScopeIn DEF StoreKept, Under
  <1>3. CASE r.kind \in Reserving
    <2>1. CommandId(r) \in T.queue => CommandId(r) \in S.queue
      BY <1>1, <1>3 DEF Discipline, Under
    <2>2. QED
      BY <1>2, <1>3, <2>1, JustifiedStable DEF AnswerOK
  <1>4. CASE r.kind \notin Reserving
    <2>1. Justified(r, a, T)
      BY <1>4, JustifiedStable DEF AnswerOK, Reserving
    <2>2. QED
      BY <1>4, <2>1 DEF AnswerOK
  <1>5. QED
    BY <1>3, <1>4

\* What holds of a thread survives the steps of the others.
LEMMA ThreadStable ==
    ASSUME NEW S, NEW T, NEW me, NEW other, ThreadOK(me, S), ThreadOK(other, S),
           StoreKept(S, T), HistoryOK(S), HistoryOK(T), RootsOK(S), RootsOK(T),
           Discipline(S, T, other),
           Owns(me) /\ Owns(other) => Scope(me.req) # Scope(other.req)
    PROVE  ThreadOK(me, T)
  <1> DEFINE r == me.req
  <1>1. IsThread(me) /\ KindOK(me) /\ CopyOK(me, S)
    BY DEF ThreadOK
  <1>2. me.pc # "idle" => r \in Requests
    BY <1>1 DEF KindOK
  <1>3. Owns(me) => me.pc # "idle"
    BY DEF Owns
  <1>4. CopyOK(me, T)
    BY <1>1 DEF CopyOK, StoreKept, RootsOK
  <1>5. Owns(me) => Under(r, T) = Under(r, S)
    <2> SUFFICES ASSUME Owns(me) PROVE Under(r, T) = Under(r, S)
      OBVIOUS
    <2>1. Scope(r) \in Scopes /\ Under(r, S).state = "RESERVED"
      BY <1>2, <1>3, ScopeIn DEF ThreadOK
    <2>2. QED
      BY <2>1 DEF Discipline, Under
  <1>6. Owns(me) => (CommandId(r) \in T.queue => CommandId(r) \in S.queue)
    BY <1>2, <1>3 DEF Discipline
  <1>7. me.pc = "plan_register" => PlanSound(me.plan, T.truth)
    BY DEF ThreadOK, StoreKept, PlanSound, MatchingDecision
  <1>8. me.pc = "complete" => Justified(r, me.answer, T)
    BY <1>2, <1>6, JustifiedStable DEF ThreadOK, Owns
  <1>9. me.pc = "reply" /\ me.answer.code \in Definite => AnswerOK(r, me.answer, T)
    <2>1. Owns(other) => other.req \in Requests /\ Under(other.req, S).state = "RESERVED"
      BY DEF ThreadOK, KindOK, Owns
    <2>2. QED
      BY <1>2, <2>1, AnswerStable DEF ThreadOK
  <1>10. /\ me.pc = "import_register" => ResourceId(r) \in T.imports
         /\ me.pc = "import_record" => ResourceId(r) \in T.registry \cap T.imports
         /\ me.pc \in {"advance_read", "advance_write"} => T.plan # NoPlan
    BY DEF ThreadOK, StoreKept
  <1>11. Owns(me) => Under(r, T).state = "RESERVED" /\ Under(r, T).fp = r.body
    BY <1>5 DEF ThreadOK
  <1>12. me.pc = "submit" => CommandId(r) \notin T.queue
    BY <1>6 DEF ThreadOK, Owns
  <1>13. me.pc = "plan_register" => me.plan.intent = r.body.intent
    BY DEF ThreadOK
  <1>14. QED
    BY <1>1, <1>4, <1>7, <1>8, <1>9, <1>10, <1>11, <1>12, <1>13 DEF ThreadOK

-----------------------------------------------------------------------------
(* A step of one thread.                                                   *)

\* The store stays sound when its changed parts are.
LEMMA StoreStep ==
    ASSUME NEW S, NEW T, NEW me, StoreOK(S), ThreadOK(me, S), StoreKept(S, T),
           Discipline(S, T, me), IdemOK(T), RunsOK(T), QueueOK(T), RootsOK(T),
           HistoryOK(T), PlansOK(T), T.registry \subseteq T.imports,
           \A r \in Requests : Under(r, T) # Under(r, S) => RecordOK(r, T)
    PROVE  StoreOK(T)
  <1> SUFFICES ASSUME NEW r \in Requests PROVE RecordOK(r, T)
    BY DEF StoreOK
  <1>1. CASE Under(r, T) # Under(r, S)
    BY <1>1
  <1>2. CASE Under(r, T) = Under(r, S)
    <2>1. RecordOK(r, S) /\ HistoryOK(S)
      BY DEF StoreOK
    <2>2. ASSUME Under(r, S).state = "COMPLETED", Justified(r, Under(r, S).answer, S)
          PROVE  Justified(r, Under(r, S).answer, T)
      <3>1. CommandId(r) \in T.queue => CommandId(r) \in S.queue
        BY <2>2 DEF Discipline, ThreadOK, Under
      <3>2. QED
        BY <2>1, <2>2, <3>1, JustifiedStable
    <2>3. QED
      BY <1>2, <2>1, <2>2 DEF RecordOK
  <1>3. QED
    BY <1>1, <1>2

\* Runs, commands and the history stay explained while keys are kept.
LEMMA PartsStable ==
    ASSUME NEW S, NEW T, StoreOK(S), StoreKept(S, T)
    PROVE  /\ T.runs = S.runs => RunsOK(T)
           /\ T.queue = S.queue => QueueOK(T)
           /\ T.history = S.history /\ T.review = S.review => HistoryOK(T)
           /\ T.roots = S.roots /\ T.runRev = S.runRev => RootsOK(T)
           /\ T.plan = S.plan /\ T.truth = S.truth /\ T.scheduled = S.scheduled =>
                 PlansOK(T)
           /\ T.registry = S.registry /\ T.imports = S.imports => T.registry \subseteq T.imports
           /\ T.idem = S.idem => IdemOK(T)
  <1>1. T.runs = S.runs => RunsOK(T)
    <2> SUFFICES ASSUME T.runs = S.runs, NEW id \in S.runs
                 PROVE  \E r \in Requests :
                           /\ r.kind = "create" /\ id = ResourceId(r)
                           /\ Under(r, T).state # "ABSENT" /\ Under(r, T).fp = r.body
      BY DEF RunsOK
    <2>1. PICK r \in Requests : /\ r.kind = "create" /\ id = ResourceId(r)
                                /\ Under(r, S).state # "ABSENT" /\ Under(r, S).fp = r.body
      BY DEF StoreOK, RunsOK
    <2>2. QED
      BY <2>1, ScopeIn DEF StoreKept, Under
  <1>2. T.queue = S.queue => QueueOK(T)
    <2> SUFFICES ASSUME T.queue = S.queue, NEW c \in S.queue
                 PROVE  \E r \in Requests :
                           /\ r.kind \in Executions /\ c = CommandId(r)
                           /\ Under(r, T).state # "ABSENT" /\ Under(r, T).fp = r.body
      BY DEF QueueOK
    <2>1. PICK r \in Requests : /\ r.kind \in Executions /\ c = CommandId(r)
                                /\ Under(r, S).state # "ABSENT" /\ Under(r, S).fp = r.body
      BY DEF StoreOK, QueueOK
    <2>2. QED
      BY <2>1, ScopeIn DEF StoreKept, Under
  <1>3. T.history = S.history /\ T.review = S.review => HistoryOK(T)
    <2> SUFFICES ASSUME T.history = S.history, T.review = S.review PROVE HistoryOK(T)
      OBVIOUS
    <2>1. ASSUME NEW i \in 1 .. Len(S.history) PROVE T.idem[S.history[i].by].state # "ABSENT"
      <3>1. S.history[i] \in Entries
        BY DEF StoreOK, HistoryOK
      <3>2. QED
        BY <3>1 DEF StoreOK, HistoryOK, StoreKept, Entries
    <2>2. QED
      BY <2>1 DEF StoreOK, HistoryOK
  <1>4. /\ T.roots = S.roots /\ T.runRev = S.runRev => RootsOK(T)
        /\ T.plan = S.plan /\ T.truth = S.truth /\ T.scheduled = S.scheduled => PlansOK(T)
        /\ T.registry = S.registry /\ T.imports = S.imports => T.registry \subseteq T.imports
        /\ T.idem = S.idem => IdemOK(T)
    BY DEF StoreOK, RootsOK, PlansOK, IdemOK
  <1>5. QED
    BY <1>1, <1>2, <1>3, <1>4

\* What the invariant needs of a step of thread t that leaves it as me.
LEMMA ThreadStep ==
    ASSUME ApiInv, NEW t \in Threads, NEW me, thread' = [thread EXCEPT ![t] = me],
           StoreOK(store'), StoreKept(store, store'),
           Discipline(store, store', thread[t]), ThreadOK(me, store'),
           Owns(me) => \/ Owns(thread[t]) /\ me.req = thread[t].req
                       \/ Under(me.req, store).state = "ABSENT",
           UNCHANGED sent, apiFaults' \in 0 .. MaxApiFaults, DOMAIN answers' = Requests,
           \A r \in Requests : \A a \in answers'[r] \ answers[r] : AnswerOK(r, a, store)
    PROVE  ApiInv'
  <1>1. thread'[t] = me /\ \A u \in Threads \ {t} : thread'[u] = thread[u]
    BY DEF ApiInv
  <1>2. \A u \in Threads : ThreadOK(thread[u], store)
    BY DEF ApiInv
  <1>3. HistoryOK(store) /\ HistoryOK(store') /\ RootsOK(store) /\ RootsOK(store')
    BY DEF ApiInv, StoreOK
  <1>4. ASSUME NEW u \in Threads PROVE ThreadOK(thread'[u], store')
    <2>1. CASE u = t
      BY <1>1, <2>1
    <2>2. CASE u # t
      <3>1. Owns(thread[u]) /\ Owns(thread[t]) =>
               Scope(thread[u].req) # Scope(thread[t].req)
        BY <2>2 DEF ApiInv, OwnersDiffer
      <3>2. ThreadOK(thread[u], store')
        BY <1>2, <1>3, <3>1, ThreadStable
      <3>3. QED
        BY <1>1, <2>2, <3>2
    <2>3. QED
      BY <2>1, <2>2
  <1>5. OwnersDiffer'
    <2> SUFFICES ASSUME NEW u \in Threads, NEW v \in Threads, u # v,
                        Owns(thread'[u]), Owns(thread'[v])
                 PROVE  Scope(thread'[u].req) # Scope(thread'[v].req)
      BY DEF OwnersDiffer
    <2>1. ASSUME NEW w \in Threads \ {t}, Owns(me), Owns(thread[w])
          PROVE  Scope(me.req) # Scope(thread[w].req)
      <3>1. Under(thread[w].req, store).state = "RESERVED"
        BY <1>2, <2>1 DEF ThreadOK
      <3>2. Owns(thread[t]) => Scope(thread[t].req) # Scope(thread[w].req)
        BY <2>1 DEF ApiInv, OwnersDiffer
      <3>3. QED
        BY <2>1, <3>1, <3>2 DEF Under
    <2>2. CASE u # t /\ v # t
      BY <1>1, <2>2 DEF ApiInv, OwnersDiffer
    <2>3. CASE u = t \/ v = t
      BY <1>1, <2>1, <2>3
    <2>4. QED
      BY <2>2, <2>3
  <1>6. ASSUME NEW r \in Requests, NEW a \in answers'[r] PROVE AnswerOK(r, a, store')
    <2>1. AnswerOK(r, a, store)
      BY <1>6 DEF ApiInv
    <2>2. Owns(thread[t]) => thread[t].req \in Requests
                              /\ Under(thread[t].req, store).state = "RESERVED"
      BY <1>2 DEF ThreadOK, KindOK, Owns
    <2>3. QED
      BY <1>3, <2>1, <2>2, AnswerStable
  <1>7. thread' = [u \in Threads |-> thread'[u]]
    BY DEF ApiInv
  <1>8. QED
    BY <1>4, <1>5, <1>6, <1>7 DEF ApiInv

\* The store is what its variables are.
LEMMA Fields ==
    /\ store.idem = idem /\ store.runs = runs /\ store.roots = roots
    /\ store.runRev = runRev /\ store.selections = selections
    /\ store.imports = imports /\ store.registry = registry
    /\ store.review = review /\ store.history = history /\ store.plan = plan
    /\ store.truth = truth /\ store.scheduled = scheduled /\ store.queue = queue
  BY DEF store

LEMMA NextFields ==
    /\ store'.idem = idem' /\ store'.runs = runs' /\ store'.roots = roots'
    /\ store'.runRev = runRev' /\ store'.selections = selections'
    /\ store'.imports = imports' /\ store'.registry = registry'
    /\ store'.review = review' /\ store'.history = history' /\ store'.plan = plan'
    /\ store'.truth = truth' /\ store'.scheduled = scheduled' /\ store'.queue = queue'
  BY DEF store

LEMMA SameStore ==
    ASSUME UNCHANGED storeVars
    PROVE  store' = store
  BY DEF storeVars, store

LEMMA KeptItself ==
    ASSUME NEW S, StoreOK(S), NEW me
    PROVE  StoreKept(S, S) /\ Discipline(S, S, me)
  BY DEF StoreKept, Discipline, StoreOK, RootsOK, HistoryOK

LEMMA ThreadFacts ==
    ASSUME ApiInv, NEW t \in Threads
    PROVE  /\ ThreadOK(thread[t], store) /\ IsThread(thread[t]) /\ KindOK(thread[t])
           /\ StoreOK(store) /\ apiFaults \in 0 .. MaxApiFaults /\ DOMAIN answers = Requests
           /\ thread[t].pc # "idle" => thread[t].req \in Requests
  BY DEF ApiInv, ThreadOK, KindOK

\* A step that leaves the store alone.
LEMMA ReadStep ==
    ASSUME ApiInv, NEW t \in Threads, NEW me, thread' = [thread EXCEPT ![t] = me],
           UNCHANGED <<sent, storeVars, answers>>, apiFaults' \in 0 .. MaxApiFaults,
           ThreadOK(me, store),
           Owns(me) => Owns(thread[t]) /\ me.req = thread[t].req
    PROVE  ApiInv'
  <1>1. store' = store
    BY SameStore
  <1>2. StoreOK(store) /\ StoreKept(store, store) /\ Discipline(store, store, thread[t])
    BY ThreadFacts, KeptItself
  <1>3. DOMAIN answers' = Requests
    BY ThreadFacts
  <1>4. QED
    BY <1>1, <1>2, <1>3, ThreadStep

\* The forms in which a thread goes on.
MovedTo(me, c) == [me EXCEPT !.pc = c]
With(me, c, a) == [me EXCEPT !.pc = c, !.answer = a]

LEMMA Moved ==
    ASSUME NEW me, IsThread(me), NEW c
    PROVE  LET next == MovedTo(me, c) IN
           /\ IsThread(next) /\ next.pc = c /\ next.req = me.req
           /\ next.rev = me.rev /\ next.roots = me.roots
           /\ next.plan = me.plan /\ next.answer = me.answer
  BY DEF IsThread, MovedTo

LEMMA Answered ==
    ASSUME NEW me, IsThread(me), NEW c, NEW a
    PROVE  LET next == With(me, c, a) IN
           /\ IsThread(next) /\ next.pc = c /\ next.req = me.req /\ next.answer = a
  <1> DEFINE moved == MovedTo(me, c)
             next == [moved EXCEPT !.answer = a]
  <1>1. IsThread(moved) /\ moved.pc = c /\ moved.req = me.req
    BY Moved
  <1>2. next = With(me, c, a)
    BY DEF IsThread, MovedTo, With
  <1> HIDE DEF moved
  <1>3. IsThread(next) /\ next.pc = moved.pc /\ next.req = moved.req /\ next.answer = a
    BY <1>1 DEF IsThread
  <1>4. QED
    BY <1>1, <1>2, <1>3

\* A thread with an answer in hand relies on nothing but the answer.
LEMMA ReplyOK ==
    ASSUME NEW me, IsThread(me), me.req \in Requests, NEW a, NEW S,
           a.code \in Definite => AnswerOK(me.req, a, S)
    PROVE  ThreadOK(With(me, "reply", a), S) /\ ~Owns(With(me, "reply", a))
  <1> DEFINE next == With(me, "reply", a)
  <1>1. /\ IsThread(next) /\ next.pc = "reply" /\ next.req = me.req /\ next.answer = a
    BY Answered
  <1> HIDE DEF next
  <1>2. KindOK(next) /\ CopyOK(next, S) /\ ~Owns(next)
    BY <1>1 DEF KindOK, CopyOK, Owns
  <1>3. QED
    BY <1>1, <1>2 DEF ThreadOK, next, Owns

\* A thread that has read enough to answer.
LEMMA AnswerStep ==
    ASSUME ApiInv, NEW t \in Threads, thread[t].pc # "idle", NEW a, Answering(t, a),
           a.code \in Definite => AnswerOK(thread[t].req, a, store),
           UNCHANGED <<sent, storeVars, answers>>, apiFaults' \in 0 .. MaxApiFaults
    PROVE  ApiInv'
  <1> DEFINE me == With(thread[t], "reply", a)
  <1>1. thread' = [thread EXCEPT ![t] = me]
    BY DEF Answering, ThreadBecomes, With
  <1>2. ThreadOK(me, store) /\ ~Owns(me)
    BY ThreadFacts, ReplyOK
  <1> HIDE DEF me
  <1>3. QED
    BY <1>1, <1>2, ReadStep

\* Answers that are no outcome.
LEMMA Errors ==
    /\ \A c \in {"FORBIDDEN", "IDEMPOTENCY_KEY_REUSED", "SOURCE_IMPORT_REPLAY_INVALID",
                 "SOURCE_IMPORT_REJECTED", "SOURCE_SELECTION_REJECTED",
                 "SOURCE_ALREADY_BOUND", "SOURCE_BINDING_CONFLICT",
                 "SOURCE_BINDING_REJECTED", "REVIEW_NOT_FOUND",
                 "REVIEW_REVISION_CONFLICT", "PLAN_PREPARATION_REPLAY_INVALID",
                 "RUN_BLOCKED", "SCHEDULED"} : Error(c).code \notin Definite
    /\ Reused.code \notin Definite
    /\ \A r : Unknown(r).code \notin Definite
  BY DEF Error, Answer, Reused, Unknown, Definite

\* A replay is told what is kept under the key.
LEMMA ReplayOK ==
    ASSUME NEW S, StoreOK(S), NEW r \in Requests, Under(r, S).state # "ABSENT",
           Under(r, S).fp = r.body, Under(r, S).answer # Nothing \/ r.kind # "prepare",
           Under(r, S).answer.code \in Definite
    PROVE  AnswerOK(r, Under(r, S).answer, S)
  BY Errors DEF StoreOK, RecordOK, AnswerOK, Reserving

LEMMA IdleOK == IsThread(IdleThread) /\ ~Owns(IdleThread) /\ \A S : ThreadOK(IdleThread, S)
  BY DEF IdleThread, Started, IsThread, Owns, ThreadOK, KindOK, CopyOK

-----------------------------------------------------------------------------
(* Writes under a key.                                                     *)

\* A record may be written when the key is fresh, or by the thread that has
\* reserved it for the same request.
MayKeep(r, S) ==
    \/ Under(r, S).state = "ABSENT"
    \/ Under(r, S).state = "RESERVED" /\ Under(r, S).fp = r.body

\* What may be kept under the key of r.
GoodRecord(r, state, a, S) ==
    \/ state = "COMPLETED" /\ Justified(r, a, S)
    \/ /\ state = "RESERVED" /\ r.kind \in Reserving
       /\ a = IF r.kind = "prepare" THEN Nothing ELSE Unknown(r)
    \/ state = "UNKNOWN" /\ r.kind \in Executions /\ a = Unknown(r)

LEMMA KeepIdem ==
    ASSUME NEW S, NEW T, StoreOK(S), NEW r \in Requests, NEW state, NEW a,
           T.idem = [S.idem EXCEPT ![Scope(r)] = Record(state, r, a)],
           GoodRecord(r, state, a, T), MayKeep(r, S)
    PROVE  /\ IdemOK(T)
           /\ Under(r, T) = Record(state, r, a)
           /\ \A k \in Scopes \ {Scope(r)} : T.idem[k] = S.idem[k]
           /\ \A q \in Requests : Under(q, T) # Under(q, S) => RecordOK(q, T)
           /\ \A k \in Scopes : S.idem[k].state # "ABSENT" =>
                 T.idem[k].state # "ABSENT" /\ T.idem[k].fp = S.idem[k].fp
           /\ \A k \in Scopes : S.idem[k].state = "COMPLETED" => T.idem[k] = S.idem[k]
  <1>1. Scope(r) \in Scopes /\ DOMAIN S.idem = Scopes
    BY ScopeIn DEF StoreOK, IdemOK
  <1>2. /\ T.idem[Scope(r)] = Record(state, r, a) /\ DOMAIN T.idem = Scopes
        /\ \A k \in Scopes \ {Scope(r)} : T.idem[k] = S.idem[k]
    BY <1>1
  <1>3. /\ Record(state, r, a).state = state /\ Record(state, r, a).fp = r.body
        /\ Record(state, r, a).answer = a
        /\ state \in {"COMPLETED", "RESERVED", "UNKNOWN"}
    BY DEF Record, GoodRecord
  <1>4. IdemOK(T)
    BY <1>2, <1>3 DEF IdemOK, StoreOK
  <1>5. ASSUME NEW q \in Requests, Under(q, T) # Under(q, S) PROVE RecordOK(q, T)
    <2>1. Scope(q) = Scope(r)
      BY <1>2, <1>5, ScopeIn DEF Under
    <2>2. Under(q, T) = Record(state, r, a)
      BY <1>2, <2>1 DEF Under
    <2>3. q.body = r.body => q = r
      BY <2>1, SameScope
    <2>4. QED
      BY <1>3, <2>2, <2>3 DEF RecordOK, GoodRecord
  <1>6. QED
    BY <1>2, <1>3, <1>4, <1>5 DEF Under, MayKeep

\* A store in which only keys are written and sets grow takes nothing back.
LEMMA KeptBy ==
    ASSUME NEW S, NEW T, StoreOK(S),
           \A k \in Scopes : S.idem[k].state # "ABSENT" =>
              T.idem[k].state # "ABSENT" /\ T.idem[k].fp = S.idem[k].fp,
           \A k \in Scopes : S.idem[k].state = "COMPLETED" => T.idem[k] = S.idem[k],
           S.runs \subseteq T.runs, S.registry \subseteq T.registry,
           S.imports \subseteq T.imports, S.selections \subseteq T.selections,
           S.queue \subseteq T.queue, T.roots = S.roots, T.runRev = S.runRev,
           T.history = S.history, T.plan = S.plan, T.truth = S.truth
    PROVE  StoreKept(S, T)
  BY DEF StoreKept, StoreOK, RootsOK, HistoryOK

\* The answers of a use case that keeps its outcome under a fresh key, and the
\* tables it writes in the same transaction.
LEMMA CompleteFresh ==
    ASSUME ApiInv, NEW t \in Threads, NEW a, Answering(t, a),
           thread[t].pc # "idle", ~Owns(thread[t]), Fresh(thread[t].req),
           Keep(thread[t].req, "COMPLETED", a), thread[t].req.kind \notin Reserving,
           Justified(thread[t].req, a, store'), StoreKept(store, store'),
           RunsOK(store'), HistoryOK(store'),
           UNCHANGED <<sent, roots, runRev, selections, imports, registry, plan,
                       truth, scheduled, queue, answers, apiFaults>>
    PROVE  ApiInv'
  <1> DEFINE r == thread[t].req
             me == With(thread[t], "reply", a)
  <1>1. r \in Requests /\ StoreOK(store) /\ ThreadOK(thread[t], store)
    BY ThreadFacts
  <1>2. store'.idem = [store.idem EXCEPT ![Scope(r)] = Record("COMPLETED", r, a)]
    BY Fields, NextFields DEF Keep
  <1>3. GoodRecord(r, "COMPLETED", a, store') /\ MayKeep(r, store)
    BY Fields DEF GoodRecord, MayKeep, Fresh, Stored, Under
  <1> HIDE DEF r
  <1>4. /\ IdemOK(store')
        /\ \A k \in Scopes \ {Scope(r)} : store'.idem[k] = store.idem[k]
        /\ \A q \in Requests : Under(q, store') # Under(q, store) => RecordOK(q, store')
    BY <1>1, <1>2, <1>3, KeepIdem
  <1>5. Discipline(store, store', thread[t])
    <2>1. Under(r, store).state = "ABSENT"
      BY Fields DEF Fresh, Stored, Under, r
    <2>2. QED
      BY <1>4, <2>1, Fields, NextFields DEF Discipline, Under
  <1>6. QueueOK(store') /\ RootsOK(store') /\ PlansOK(store')
        /\ store'.registry \subseteq store'.imports
    <2>1. /\ store'.queue = store.queue /\ store'.roots = store.roots
          /\ store'.runRev = store.runRev /\ store'.plan = store.plan
          /\ store'.truth = store.truth /\ store'.scheduled = store.scheduled
          /\ store'.registry = store.registry /\ store'.imports = store.imports
      BY Fields, NextFields
    <2>2. QED
      BY <1>1, <2>1, PartsStable
  <1>7. StoreOK(store')
    BY <1>1, <1>4, <1>5, <1>6, StoreStep
  <1>8. AnswerOK(r, a, store')
    BY DEF AnswerOK, r
  <1>9. ThreadOK(me, store') /\ ~Owns(me)
    BY <1>1, <1>8, ThreadFacts, ReplyOK DEF r
  <1>10. thread' = [thread EXCEPT ![t] = me]
    BY DEF Answering, ThreadBecomes, With
  <1>11. apiFaults' \in 0 .. MaxApiFaults /\ DOMAIN answers' = Requests
    BY ThreadFacts
  <1> HIDE DEF me
  <1>12. QED
    BY <1>5, <1>7, <1>9, <1>10, <1>11, ThreadStep

-----------------------------------------------------------------------------
(* One lemma per action.                                                   *)

LEMMA StartedFields ==
    ASSUME NEW r, NEW c, NEW a
    PROVE  LET me == Started(r, c, a) IN
           IsThread(me) /\ me.pc = c /\ me.req = r /\ me.answer = a
  BY DEF Started, IsThread

LEMMA ServeStep ==
    ASSUME ApiInv, NEW t \in Threads, NEW r \in Requests, Serve(t, r)
    PROVE  ApiInv'
  <1> DEFINE me == IF Authorized(r) THEN Started(r, FirstStep(r), Nothing)
                   ELSE Started(r, "reply", Error("FORBIDDEN"))
  <1>1. ThreadBecomes(t, me)
    BY DEF Serve
  <1>2. UNCHANGED <<sent, storeVars, answers, apiFaults>>
    BY DEF Serve
  <1>3. ThreadOK(me, store) /\ ~Owns(me)
    <2>1. CASE Authorized(r)
      <3>1. IsThread(me) /\ me.pc = FirstStep(r) /\ me.req = r
        BY <2>1, StartedFields
      <3>2. r.kind = "advance" => store.plan # NoPlan
        BY Fields, ThreadFacts DEF Serve, StoreOK, PlansOK
      <3> HIDE DEF me
      <3>3. /\ me.pc \in {"create", "import_lookup", "bind_read", "review_read",
                          "advance_read", "reserve"}
            /\ KindOK(me) /\ (me.pc = "advance_read" => r.kind = "advance")
        BY <3>1, Kinds DEF FirstStep, KindOK, Binds, Reviews, Reserving, Executions
      <3>4. CopyOK(me, store) /\ ~Owns(me)
        BY <3>3 DEF CopyOK, Owns
      <3>5. QED
        BY <3>1, <3>2, <3>3, <3>4 DEF ThreadOK
    <2>2. CASE ~Authorized(r)
      <3>1. IsThread(me) /\ me.pc = "reply" /\ me.req = r /\ me.answer = Error("FORBIDDEN")
        BY <2>2, StartedFields
      <3> HIDE DEF me
      <3>2. KindOK(me) /\ CopyOK(me, store) /\ ~Owns(me)
        BY <3>1 DEF KindOK, CopyOK, Owns
      <3>3. QED
        BY <3>1, <3>2, Errors DEF ThreadOK
    <2>3. QED
      BY <2>1, <2>2
  <1> HIDE DEF me
  <1>4. apiFaults' \in 0 .. MaxApiFaults
    BY <1>2, ThreadFacts
  <1>5. QED
    BY <1>1, <1>2, <1>3, <1>4, ReadStep DEF ThreadBecomes

LEMMA DieStep ==
    ASSUME ApiInv, NEW t \in Threads, Die(t)
    PROVE  ApiInv'
  <1>1. apiFaults' \in 0 .. MaxApiFaults
    BY ThreadFacts, ApiAssumption DEF Die
  <1>2. thread' = [thread EXCEPT ![t] = IdleThread] /\ UNCHANGED <<sent, storeVars, answers>>
    BY DEF Die, ThreadBecomes
  <1>3. QED
    BY <1>1, <1>2, IdleOK, ReadStep

\* The client is told what the thread has in hand.
LEMMA ReplyStep ==
    ASSUME ApiInv, NEW t \in Threads, Reply(t)
    PROVE  ApiInv'
  <1> DEFINE r == thread[t].req
             a == thread[t].answer
  <1>1. store' = store /\ UNCHANGED <<sent, apiFaults>>
    BY SameStore DEF Reply
  <1>2. r \in Requests /\ (a.code \in Definite => AnswerOK(r, a, store))
    BY ThreadFacts DEF Reply, ThreadAt, ThreadOK
  <1>3. DOMAIN answers' = Requests
    BY ThreadFacts DEF Reply
  <1>4. \A q \in Requests : \A b \in answers'[q] \ answers[q] : AnswerOK(q, b, store)
    <2>1. CASE a.code \in Definite
      <3>1. answers' = [answers EXCEPT ![r] = @ \cup {a}]
        BY <2>1 DEF Reply, Req
      <3>2. /\ answers'[r] = answers[r] \cup {a}
            /\ \A q \in Requests \ {r} : answers'[q] = answers[q]
        BY <3>1, <1>2, ThreadFacts
      <3>3. QED
        BY <1>2, <2>1, <3>2
    <2>2. CASE a.code \notin Definite
      BY <2>2 DEF Reply
    <2>3. QED
      BY <2>1, <2>2
  <1>5. StoreOK(store) /\ StoreKept(store, store) /\ Discipline(store, store, thread[t])
    BY ThreadFacts, KeptItself
  <1>6. thread' = [thread EXCEPT ![t] = IdleThread]
    BY DEF Reply, ThreadBecomes
  <1>7. apiFaults' \in 0 .. MaxApiFaults
    BY <1>1, ThreadFacts
  <1>8. QED
    BY <1>1, <1>3, <1>4, <1>5, <1>6, <1>7, IdleOK, ThreadStep

LEMMA CreateRunStep ==
    ASSUME ApiInv, NEW t \in Threads, CreateRun(t)
    PROVE  ApiInv'
  <1> DEFINE r == thread[t].req
             a == Answer("RUN", ResourceId(r))
  <1>1. r \in Requests /\ r.kind = "create" /\ StoreOK(store) /\ ~Owns(thread[t])
    BY ThreadFacts DEF CreateRun, ThreadAt, KindOK, Owns
  <1>2. CASE Fresh(r)
    <2>1. /\ runs' = runs \cup {ResourceId(r)} /\ Keep(r, "COMPLETED", a)
          /\ Answering(t, a)
      BY <1>2 DEF CreateRun, CreateRunWithIdempotency, Req
    <2>2. /\ UNCHANGED <<sent, roots, runRev, selections, imports, registry, plan,
                         truth, scheduled, queue, answers, apiFaults>>
          /\ UNCHANGED <<review, history>>
      BY DEF CreateRun
    <2>3. Justified(r, a, store')
      BY <1>1, <2>1, NextFields DEF Justified
    <2>4. GoodRecord(r, "COMPLETED", a, store') /\ MayKeep(r, store)
      BY <1>2, <2>3, Fields DEF GoodRecord, MayKeep, Fresh, Stored, Under
    <2>5. store'.idem = [store.idem EXCEPT ![Scope(r)] = Record("COMPLETED", r, a)]
      BY <2>1, Fields, NextFields DEF Keep
    <2> HIDE DEF r, a
    <2>6. /\ Under(r, store') = Record("COMPLETED", r, a)
          /\ \A k \in Scopes : store.idem[k].state # "ABSENT" =>
                store'.idem[k].state # "ABSENT" /\ store'.idem[k].fp = store.idem[k].fp
          /\ \A k \in Scopes : store.idem[k].state = "COMPLETED" => store'.idem[k] = store.idem[k]
      BY <1>1, <2>4, <2>5, KeepIdem
    <2>7. /\ store'.runs = store.runs \cup {ResourceId(r)}
          /\ store'.registry = store.registry /\ store'.imports = store.imports
          /\ store'.selections = store.selections /\ store'.queue = store.queue
          /\ store'.roots = store.roots /\ store'.runRev = store.runRev
          /\ store'.history = store.history /\ store'.review = store.review
          /\ store'.plan = store.plan /\ store'.truth = store.truth
      BY <2>1, <2>2, Fields, NextFields
    <2>8. StoreKept(store, store')
      BY <1>1, <2>6, <2>7, KeptBy
    <2>9. HistoryOK(store')
      BY <1>1, <2>7, <2>8, PartsStable
    <2>10. RunsOK(store')
      <3> SUFFICES ASSUME NEW id \in store'.runs
                   PROVE  \E q \in Requests :
                             /\ q.kind = "create" /\ id = ResourceId(q)
                             /\ Under(q, store').state # "ABSENT"
                             /\ Under(q, store').fp = q.body
        BY DEF RunsOK
      <3>1. CASE id = ResourceId(r)
        BY <1>1, <2>6, <3>1 DEF Record
      <3>2. CASE id \in store.runs
        <4>1. PICK q \in Requests : /\ q.kind = "create" /\ id = ResourceId(q)
                                    /\ Under(q, store).state # "ABSENT"
                                    /\ Under(q, store).fp = q.body
          BY <1>1, <3>2 DEF StoreOK, RunsOK
        <4>2. QED
          BY <4>1, <2>6, ScopeIn DEF Under
      <3>3. QED
        BY <2>7, <3>1, <3>2
    <2>11. r.kind \notin Reserving
      BY <1>1 DEF Reserving, Executions
    <2>12. thread[t].pc # "idle"
      BY DEF CreateRun, ThreadAt
    <2>13. QED
      BY <1>1, <1>2, <2>1, <2>2, <2>3, <2>8, <2>9, <2>10, <2>11, <2>12, CompleteFresh DEF r
  <1>3. CASE ~Fresh(r)
    <2> DEFINE b == IF Conflicts(r) THEN Reused ELSE Stored(r).answer
    <2>1. Answering(t, b) /\ UNCHANGED <<sent, storeVars, answers, apiFaults>>
      BY <1>3 DEF CreateRun, CreateRunWithIdempotency, Req, storeVars
    <2>2. b.code \in Definite => AnswerOK(r, b, store)
      BY <1>1, <1>3, ReplayOK, Errors, Fields DEF Conflicts, Fresh, Stored, Under
    <2>3. thread[t].pc # "idle" /\ apiFaults' \in 0 .. MaxApiFaults
      BY <2>1, ThreadFacts DEF CreateRun, ThreadAt
    <2> HIDE DEF b
    <2>4. QED
      BY <2>1, <2>2, <2>3, AnswerStep
  <1>4. QED
    BY <1>2, <1>3

\* The answer of a use case that finds its key taken.
LEMMA ReplayStep ==
    ASSUME ApiInv, NEW t \in Threads, thread[t].pc # "idle", ~Fresh(thread[t].req),
           thread[t].req.kind # "prepare",
           Answering(t, IF Conflicts(thread[t].req) THEN Reused
                        ELSE Stored(thread[t].req).answer),
           UNCHANGED <<sent, storeVars, answers, apiFaults>>
    PROVE  ApiInv'
  <1> DEFINE r == thread[t].req
             b == IF Conflicts(r) THEN Reused ELSE Stored(r).answer
  <1>1. r \in Requests /\ StoreOK(store)
    BY ThreadFacts
  <1>2. b.code \in Definite => AnswerOK(r, b, store)
    BY <1>1, ReplayOK, Errors, Fields DEF Conflicts, Fresh, Stored, Under
  <1>3. Answering(t, b) /\ apiFaults' \in 0 .. MaxApiFaults
    BY ThreadFacts
  <1> HIDE DEF b
  <1>4. QED
    BY <1>2, <1>3, AnswerStep

\* A refusal that changes nothing.
LEMMA RefuseStep ==
    ASSUME ApiInv, NEW t \in Threads, thread[t].pc # "idle", NEW a, Answering(t, a),
           a.code \notin Definite, UNCHANGED <<sent, storeVars, answers, apiFaults>>
    PROVE  ApiInv'
  BY ThreadFacts, AnswerStep

\* A step that adds files, sources or selections.
LEMMA GrowStep ==
    ASSUME ApiInv, NEW t \in Threads, NEW me, thread' = [thread EXCEPT ![t] = me],
           UNCHANGED <<sent, idem, runs, roots, runRev, review, history, plan,
                       truth, scheduled, queue, answers, apiFaults>>,
           imports \subseteq imports', registry \subseteq registry',
           selections \subseteq selections', registry' \subseteq imports',
           ThreadOK(me, store'), ~Owns(me)
    PROVE  ApiInv'
  <1>1. StoreOK(store) /\ ThreadOK(thread[t], store)
    BY ThreadFacts
  <1>2. /\ store'.idem = store.idem /\ store'.runs = store.runs
        /\ store'.roots = store.roots /\ store'.runRev = store.runRev
        /\ store'.review = store.review /\ store'.history = store.history
        /\ store'.plan = store.plan /\ store'.truth = store.truth
        /\ store'.scheduled = store.scheduled /\ store'.queue = store.queue
        /\ store.imports \subseteq store'.imports /\ store.registry \subseteq store'.registry
        /\ store.selections \subseteq store'.selections
        /\ store'.registry \subseteq store'.imports
    BY Fields, NextFields
  <1>3. StoreKept(store, store')
    BY <1>1, <1>2, KeptBy
  <1>4. Discipline(store, store', thread[t])
    BY <1>2 DEF Discipline
  <1>5. StoreOK(store')
    <2>1. /\ IdemOK(store') /\ RunsOK(store') /\ QueueOK(store') /\ RootsOK(store')
          /\ HistoryOK(store') /\ PlansOK(store')
      BY <1>1, <1>2, <1>3, PartsStable
    <2>2. \A r \in Requests : Under(r, store') = Under(r, store)
      BY <1>2 DEF Under
    <2>3. QED
      BY <1>1, <1>2, <1>3, <1>4, <2>1, <2>2, StoreStep
  <1>6. apiFaults' \in 0 .. MaxApiFaults /\ DOMAIN answers' = Requests
    BY ThreadFacts
  <1>7. QED
    BY <1>3, <1>4, <1>5, <1>6, ThreadStep

\* record_idempotency after the effect.
LEMMA RecordStep ==
    ASSUME ApiInv, NEW t \in Threads, thread[t].pc # "idle", ~Owns(thread[t]),
           thread[t].req.kind \notin Reserving, NEW a, NEW b,
           RecordIdempotency(thread[t].req, a), Justified(thread[t].req, a, store),
           Answering(t, IF Conflicts(thread[t].req) THEN b ELSE a),
           b.code \notin Definite,
           UNCHANGED <<sent, runs, roots, runRev, selections, imports, registry,
                       review, history, plan, truth, scheduled, queue, answers,
                       apiFaults>>
    PROVE  ApiInv'
  <1> DEFINE r == thread[t].req
  <1>1. r \in Requests /\ StoreOK(store) /\ HistoryOK(store)
    BY ThreadFacts DEF StoreOK
  <1>2. CASE Fresh(r)
    <2>1. Keep(r, "COMPLETED", a) /\ Answering(t, a)
      BY <1>2 DEF RecordIdempotency, Conflicts
    <2>2. /\ store'.runs = store.runs
          /\ store'.registry = store.registry /\ store'.imports = store.imports
          /\ store'.selections = store.selections /\ store'.queue = store.queue
          /\ store'.roots = store.roots /\ store'.runRev = store.runRev
          /\ store'.history = store.history /\ store'.review = store.review
          /\ store'.plan = store.plan /\ store'.truth = store.truth
      BY Fields, NextFields
    <2>3. Justified(r, a, store')
      BY <2>2 DEF Justified
    <2>4. GoodRecord(r, "COMPLETED", a, store') /\ MayKeep(r, store)
      BY <1>2, <2>3, Fields DEF GoodRecord, MayKeep, Fresh, Stored, Under
    <2>5. store'.idem = [store.idem EXCEPT ![Scope(r)] = Record("COMPLETED", r, a)]
      BY <2>1, Fields, NextFields DEF Keep
    <2> HIDE DEF r
    <2>6. /\ \A k \in Scopes : store.idem[k].state # "ABSENT" =>
                store'.idem[k].state # "ABSENT" /\ store'.idem[k].fp = store.idem[k].fp
          /\ \A k \in Scopes : store.idem[k].state = "COMPLETED" => store'.idem[k] = store.idem[k]
      BY <1>1, <2>4, <2>5, KeepIdem
    <2>7. StoreKept(store, store')
      BY <1>1, <2>2, <2>6, KeptBy
    <2>8. HistoryOK(store') /\ RunsOK(store')
      BY <1>1, <2>2, <2>7, PartsStable
    <2>9. QED
      BY <1>2, <2>1, <2>3, <2>7, <2>8, CompleteFresh DEF r
  <1>3. CASE ~Fresh(r)
    <2>1. UNCHANGED storeVars /\ apiFaults' \in 0 .. MaxApiFaults
      BY <1>3, ThreadFacts DEF RecordIdempotency, storeVars
    <2>2. AnswerOK(r, a, store)
      BY DEF AnswerOK
    <2> DEFINE c == IF Conflicts(r) THEN b ELSE a
    <2>3. Answering(t, c) /\ (c.code \in Definite => AnswerOK(r, c, store))
      BY <2>2
    <2> HIDE DEF c
    <2>4. QED
      BY <2>1, <2>3, AnswerStep
  <1>4. QED
    BY <1>2, <1>3

LEMMA ImportLookupStep ==
    ASSUME ApiInv, NEW t \in Threads, ImportLookup(t)
    PROVE  ApiInv'
  <1> DEFINE r == thread[t].req
             id == ResourceId(r)
  <1>1. /\ r \in Requests /\ r.kind = "import" /\ StoreOK(store)
        /\ thread[t].pc # "idle" /\ IsThread(thread[t])
    BY ThreadFacts DEF ImportLookup, ThreadAt, KindOK
  <1>2. UNCHANGED <<sent, storeVars, answers, apiFaults>>
    BY DEF ImportLookup
  <1>3. CASE Fresh(r)
    <2> DEFINE me == MovedTo(thread[t], "import_file")
    <2>1. thread' = [thread EXCEPT ![t] = me]
      BY <1>3 DEF ImportLookup, Req, ThreadGoto, ThreadBecomes, MovedTo
    <2>2. IsThread(me) /\ me.pc = "import_file" /\ me.req = r
      BY <1>1, Moved
    <2> HIDE DEF me
    <2>3. ThreadOK(me, store) /\ ~Owns(me)
      BY <1>1, <2>2 DEF ThreadOK, KindOK, CopyOK, Owns
    <2>4. apiFaults' \in 0 .. MaxApiFaults
      BY <1>2, ThreadFacts
    <2>5. QED
      BY <1>2, <2>1, <2>3, <2>4, ReadStep
  <1>4. CASE ~Fresh(r)
    <2> DEFINE b == IF Conflicts(r) THEN Reused
                    ELSE IF id \in registry THEN Answer("SOURCE", id)
                    ELSE Error("SOURCE_IMPORT_REPLAY_INVALID")
    <2>1. Answering(t, b) /\ apiFaults' \in 0 .. MaxApiFaults
      BY <1>4, ThreadFacts DEF ImportLookup, Req
    <2>2. b.code \in Definite => AnswerOK(r, b, store)
      <3>1. id \in registry => AnswerOK(r, Answer("SOURCE", id), store)
        <4>1. registry \subseteq imports
          BY <1>1, Fields DEF StoreOK
        <4>2. QED
          BY <1>1, <4>1, Fields DEF AnswerOK, Justified, Reserving, Executions
      <3>2. QED
        BY <3>1, Errors
    <2> HIDE DEF b
    <2>3. QED
      BY <1>1, <1>2, <2>1, <2>2, AnswerStep
  <1>5. QED
    BY <1>3, <1>4

LEMMA ImportFileStep ==
    ASSUME ApiInv, NEW t \in Threads, ImportFile(t)
    PROVE  ApiInv'
  <1> DEFINE r == thread[t].req
             me == MovedTo(thread[t], "import_register")
  <1>1. /\ r \in Requests /\ r.kind = "import" /\ StoreOK(store)
        /\ thread[t].pc # "idle" /\ IsThread(thread[t])
    BY ThreadFacts DEF ImportFile, ThreadAt, KindOK
  <1>2. CASE Acceptable(r)
    <2>1. thread' = [thread EXCEPT ![t] = me] /\ imports' = imports \cup {ResourceId(r)}
      BY <1>2 DEF ImportFile, Req, ThreadGoto, ThreadBecomes, MovedTo
    <2>2. IsThread(me) /\ me.pc = "import_register" /\ me.req = r
      BY <1>1, Moved
    <2> HIDE DEF me
    <2>3. ThreadOK(me, store') /\ ~Owns(me)
      BY <1>1, <2>1, <2>2, NextFields DEF ThreadOK, KindOK, CopyOK, Owns
    <2>4. registry \subseteq imports
      BY <1>1, Fields DEF StoreOK
    <2>5. /\ UNCHANGED <<sent, idem, runs, roots, runRev, review, history, plan,
                         truth, scheduled, queue, answers, apiFaults>>
          /\ UNCHANGED <<registry, selections>>
      BY DEF ImportFile
    <2>6. QED
      BY <2>1, <2>3, <2>4, <2>5, GrowStep
  <1>3. CASE ~Acceptable(r)
    <2>1. /\ Answering(t, Error("SOURCE_IMPORT_REJECTED"))
          /\ UNCHANGED <<sent, storeVars, answers, apiFaults>>
      BY <1>3 DEF ImportFile, Req, storeVars
    <2>2. QED
      BY <1>1, <2>1, Errors, RefuseStep
  <1>4. QED
    BY <1>2, <1>3

LEMMA ImportRegisterStep ==
    ASSUME ApiInv, NEW t \in Threads, ImportRegister(t)
    PROVE  ApiInv'
  <1> DEFINE r == thread[t].req
             me == MovedTo(thread[t], "import_record")
  <1>1. /\ r \in Requests /\ r.kind = "import" /\ StoreOK(store)
        /\ ResourceId(r) \in store.imports /\ IsThread(thread[t])
    BY ThreadFacts DEF ImportRegister, ThreadAt, KindOK, ThreadOK
  <1>2. thread' = [thread EXCEPT ![t] = me] /\ registry' = registry \cup {ResourceId(r)}
    BY DEF ImportRegister, RegisterSource, Req, ThreadGoto, ThreadBecomes, MovedTo
  <1>3. IsThread(me) /\ me.pc = "import_record" /\ me.req = r
    BY <1>1, Moved
  <1> HIDE DEF me
  <1>4. /\ UNCHANGED <<sent, idem, runs, roots, runRev, review, history, plan,
                       truth, scheduled, queue, answers, apiFaults>>
        /\ UNCHANGED <<imports, selections>>
    BY DEF ImportRegister
  <1>5. registry' \subseteq imports
    BY <1>1, <1>2, Fields DEF StoreOK
  <1>6. ResourceId(r) \in store'.registry \cap store'.imports
    BY <1>1, <1>2, <1>4, Fields, NextFields
  <1>7. ThreadOK(me, store') /\ ~Owns(me)
    BY <1>1, <1>3, <1>6 DEF ThreadOK, KindOK, CopyOK, Owns
  <1>8. QED
    BY <1>2, <1>4, <1>5, <1>7, GrowStep

LEMMA ImportRecordStep ==
    ASSUME ApiInv, NEW t \in Threads, ImportRecord(t)
    PROVE  ApiInv'
  <1> DEFINE r == thread[t].req
             a == Answer("SOURCE", ResourceId(r))
  <1>1. /\ r.kind = "import" /\ thread[t].pc # "idle" /\ ~Owns(thread[t])
        /\ ResourceId(r) \in store.registry \cap store.imports
    BY ThreadFacts DEF ImportRecord, ThreadAt, KindOK, ThreadOK, Owns
  <1>2. Justified(r, a, store) /\ r.kind \notin Reserving
    BY <1>1 DEF Justified, Reserving, Executions
  <1>3. /\ RecordIdempotency(r, a)
        /\ Answering(t, IF Conflicts(r) THEN Reused ELSE a)
        /\ UNCHANGED <<sent, runs, roots, runRev, selections, imports, registry,
                       review, history, plan, truth, scheduled, queue, answers,
                       apiFaults>>
    BY DEF ImportRecord, Req
  <1> HIDE DEF a
  <1>4. QED
    BY <1>1, <1>2, <1>3, Errors, RecordStep

-----------------------------------------------------------------------------
(* Bindings.                                                               *)

\* A thread that has read the run row.
Copied(me, rev, rows) ==
    [me EXCEPT !.pc = "bind_lookup", !.rev = rev, !.roots = rows]

LEMMA CopiedFields ==
    ASSUME NEW me, IsThread(me), NEW rev, NEW rows
    PROVE  LET next == Copied(me, rev, rows) IN
           /\ IsThread(next) /\ next.pc = "bind_lookup" /\ next.req = me.req
           /\ next.rev = rev /\ next.roots = rows
  <1> DEFINE moved == MovedTo(me, "bind_lookup")
             marked == [moved EXCEPT !.rev = rev]
             next == [marked EXCEPT !.roots = rows]
  <1>1. next = Copied(me, rev, rows)
    BY DEF IsThread, MovedTo, Copied
  <1>2. IsThread(moved) /\ moved.pc = "bind_lookup" /\ moved.req = me.req
    BY Moved
  <1> HIDE DEF moved
  <1>3. IsThread(marked) /\ marked.pc = moved.pc /\ marked.req = moved.req /\ marked.rev = rev
    BY <1>2 DEF IsThread
  <1> HIDE DEF marked
  <1>4. /\ IsThread(next) /\ next.pc = marked.pc /\ next.req = marked.req
        /\ next.rev = marked.rev /\ next.roots = rows
    BY <1>3 DEF IsThread
  <1>5. QED
    BY <1>1, <1>2, <1>3, <1>4

LEMMA BindReadStep ==
    ASSUME ApiInv, NEW t \in Threads, BindRead(t)
    PROVE  ApiInv'
  <1> DEFINE me == Copied(thread[t], runRev, roots)
  <1>1. /\ thread[t].req \in Requests /\ thread[t].req.kind \in Binds
        /\ StoreOK(store) /\ IsThread(thread[t])
    BY ThreadFacts DEF BindRead, ThreadAt, KindOK
  <1>2. /\ IsThread(me) /\ me.pc = "bind_lookup" /\ me.req = thread[t].req
        /\ me.rev = store.runRev /\ me.roots = store.roots
    BY <1>1, CopiedFields, Fields
  <1>3. thread' = [thread EXCEPT ![t] = me]
    BY DEF BindRead, ThreadBecomes, Copied
  <1> HIDE DEF me
  <1>4. store.runRev \in Nat
    BY <1>1 DEF StoreOK, RootsOK
  <1>5. ThreadOK(me, store) /\ ~Owns(me)
    BY <1>1, <1>2, <1>4 DEF ThreadOK, KindOK, CopyOK, Owns
  <1>6. UNCHANGED <<sent, storeVars, answers>> /\ apiFaults' \in 0 .. MaxApiFaults
    BY ThreadFacts DEF BindRead
  <1>7. QED
    BY <1>3, <1>5, <1>6, ReadStep

LEMMA BindLookupStep ==
    ASSUME ApiInv, NEW t \in Threads, BindLookup(t)
    PROVE  ApiInv'
  <1> DEFINE r == thread[t].req
  <1>1. /\ r \in Requests /\ r.kind \in Binds /\ thread[t].pc # "idle"
        /\ thread[t].pc = "bind_lookup" /\ IsThread(thread[t])
        /\ ThreadOK(thread[t], store)
    BY ThreadFacts DEF BindLookup, ThreadAt, KindOK
  <1>2. UNCHANGED <<sent, storeVars, answers, apiFaults>>
    BY DEF BindLookup
  <1>3. CASE ~Fresh(r)
    <2>1. Answering(t, IF Conflicts(r) THEN Reused ELSE Stored(r).answer)
      BY <1>3 DEF BindLookup, Req
    <2>2. QED
      BY <1>1, <1>2, <1>3, <2>1, ReplayStep DEF Binds
  <1>4. CASE Fresh(r) /\ ~Selectable(r)
    BY <1>1, <1>2, <1>4, Errors, RefuseStep DEF BindLookup, Req
  <1>5. CASE /\ Fresh(r) /\ Selectable(r)
             /\ thread[t].roots # {} /\ SelectionId(r) \notin thread[t].roots
    BY <1>1, <1>2, <1>5, Errors, RefuseStep DEF BindLookup, Req
  <1>6. CASE /\ Fresh(r) /\ Selectable(r)
             /\ ~(thread[t].roots # {} /\ SelectionId(r) \notin thread[t].roots)
    <2> DEFINE me == MovedTo(thread[t], "bind_publish")
    <2>1. thread' = [thread EXCEPT ![t] = me]
      BY <1>6 DEF BindLookup, Req, ThreadGoto, ThreadBecomes, MovedTo
    <2>2. /\ IsThread(me) /\ me.pc = "bind_publish" /\ me.req = r
          /\ me.rev = thread[t].rev /\ me.roots = thread[t].roots
      BY <1>1, Moved
    <2> HIDE DEF me
    <2>3. KindOK(me) /\ CopyOK(me, store) /\ ~Owns(me)
      BY <1>1, <1>6, <2>2 DEF ThreadOK, KindOK, CopyOK, Owns
    <2>4. ThreadOK(me, store)
      BY <2>2, <2>3 DEF ThreadOK
    <2>5. apiFaults' \in 0 .. MaxApiFaults
      BY <1>2, ThreadFacts
    <2>6. QED
      BY <1>2, <2>1, <2>3, <2>4, <2>5, ReadStep
  <1>7. QED
    BY <1>3, <1>4, <1>5, <1>6

LEMMA BindPublishStep ==
    ASSUME ApiInv, NEW t \in Threads, BindPublish(t)
    PROVE  ApiInv'
  <1> DEFINE r == thread[t].req
             me == MovedTo(thread[t], "bind_run")
  <1>1. /\ r \in Requests /\ r.kind \in Binds /\ StoreOK(store)
        /\ thread[t].pc = "bind_publish" /\ IsThread(thread[t]) /\ CopyOK(thread[t], store)
    BY ThreadFacts DEF BindPublish, ThreadAt, KindOK, ThreadOK
  <1>2. thread' = [thread EXCEPT ![t] = me] /\ selections' = selections \cup {SelectionId(r)}
    BY DEF BindPublish, Req, ThreadGoto, ThreadBecomes, MovedTo
  <1>3. /\ IsThread(me) /\ me.pc = "bind_run" /\ me.req = r
        /\ me.rev = thread[t].rev /\ me.roots = thread[t].roots
    BY <1>1, Moved
  <1> HIDE DEF me
  <1>4. /\ UNCHANGED <<sent, idem, runs, roots, runRev, review, history, plan,
                       truth, scheduled, queue, answers, apiFaults>>
        /\ UNCHANGED <<imports, registry>>
    BY DEF BindPublish
  <1>5. /\ store'.runRev = store.runRev /\ store'.roots = store.roots
        /\ SelectionId(r) \in store'.selections
    BY <1>2, <1>4, Fields, NextFields
  <1>6. KindOK(me) /\ CopyOK(me, store') /\ ~Owns(me)
    BY <1>1, <1>3, <1>5 DEF KindOK, CopyOK, Owns
  <1>7. ThreadOK(me, store')
    BY <1>3, <1>6 DEF ThreadOK
  <1>8. registry' \subseteq imports'
    BY <1>1, <1>4, Fields DEF StoreOK
  <1>9. QED
    BY <1>2, <1>4, <1>6, <1>7, <1>8, GrowStep

LEMMA BindRunStep ==
    ASSUME ApiInv, NEW t \in Threads, BindRun(t)
    PROVE  ApiInv'
  <1> DEFINE r == thread[t].req
             id == SelectionId(r)
             me == MovedTo(thread[t], "bind_record")
  <1>1. /\ r \in Requests /\ r.kind \in Binds /\ StoreOK(store) /\ thread[t].pc # "idle"
        /\ thread[t].pc = "bind_run" /\ IsThread(thread[t])
        /\ ThreadOK(thread[t], store) /\ CopyOK(thread[t], store)
    BY ThreadFacts DEF BindRun, ThreadAt, KindOK, ThreadOK
  <1>2. id \in store.selections
    BY <1>1 DEF CopyOK
  <1>3. IsThread(me) /\ me.pc = "bind_record" /\ me.req = r
    BY <1>1, Moved
  <1>4. UNCHANGED <<sent, idem, runs, selections, imports, registry, review, history,
                    plan, truth, scheduled, queue, answers, apiFaults>>
    BY DEF BindRun
  <1>5. apiFaults' \in 0 .. MaxApiFaults /\ DOMAIN answers' = Requests
    BY <1>4, ThreadFacts
  <1>6. ThreadGoto(t, "bind_record") => thread' = [thread EXCEPT ![t] = me]
    BY DEF ThreadGoto, ThreadBecomes, MovedTo
  <1>7. ASSUME NEW S, id \in S.roots \cap S.selections PROVE ThreadOK(me, S) /\ ~Owns(me)
    <2> HIDE DEF me
    <2>1. QED
      BY <1>1, <1>3, <1>7 DEF ThreadOK, KindOK, CopyOK, Owns
  <1> HIDE DEF me
  <1>8. CASE id \in thread[t].roots /\ ThreadGoto(t, "bind_record") /\ UNCHANGED <<roots, runRev>>
    <2>1. id \in store.roots
      BY <1>1, <1>8 DEF CopyOK
    <2>2. UNCHANGED storeVars
      BY <1>4, <1>8 DEF storeVars
    <2>3. QED
      BY <1>2, <1>4, <1>5, <1>6, <1>7, <1>8, <2>1, <2>2, ReadStep
  <1>9. CASE /\ id \notin thread[t].roots
             /\ UpdateRun(thread[t].rev, thread[t].roots \cup {id})
             /\ ThreadGoto(t, "bind_record")
    <2>1. /\ store.roots = {} /\ store'.roots = {id} /\ store.runRev \in Nat
          /\ store'.runRev = store.runRev + 1
      BY <1>1, <1>9, Fields, NextFields DEF UpdateRun, CopyOK, StoreOK, RootsOK
    <2>2. /\ store'.idem = store.idem /\ store'.runs = store.runs
          /\ store'.selections = store.selections /\ store'.imports = store.imports
          /\ store'.registry = store.registry /\ store'.review = store.review
          /\ store'.history = store.history /\ store'.plan = store.plan
          /\ store'.truth = store.truth /\ store'.scheduled = store.scheduled
          /\ store'.queue = store.queue
      BY <1>4, Fields, NextFields
    <2>3. StoreKept(store, store') /\ Discipline(store, store', thread[t])
      BY <1>1, <2>1, <2>2 DEF StoreKept, Discipline, StoreOK, HistoryOK
    <2>4. RootsOK(store')
      BY <1>1, <2>1 DEF RootsOK
    <2>5. StoreOK(store')
      <3>1. /\ IdemOK(store') /\ RunsOK(store') /\ QueueOK(store')
            /\ HistoryOK(store') /\ PlansOK(store') /\ store'.registry \subseteq store'.imports
        BY <1>1, <2>2, <2>3, PartsStable
      <3>2. \A q \in Requests : Under(q, store') = Under(q, store)
        BY <2>2 DEF Under
      <3>3. QED
        BY <1>1, <2>3, <2>4, <3>1, <3>2, StoreStep
    <2>6. ThreadOK(me, store') /\ ~Owns(me)
      BY <1>2, <1>7, <2>1, <2>2
    <2>7. QED
      BY <1>4, <1>5, <1>6, <1>9, <2>3, <2>5, <2>6, ThreadStep
  <1>10. CASE Answering(t, Error("SOURCE_BINDING_CONFLICT")) /\ UNCHANGED <<roots, runRev>>
    <2>1. UNCHANGED storeVars
      BY <1>4, <1>10 DEF storeVars
    <2>2. QED
      BY <1>1, <1>4, <1>10, <2>1, Errors, RefuseStep
  <1>11. QED
    BY <1>8, <1>9, <1>10 DEF BindRun, Req

LEMMA BindRecordStep ==
    ASSUME ApiInv, NEW t \in Threads, BindRecord(t)
    PROVE  ApiInv'
  <1> DEFINE r == thread[t].req
             a == Answer("BOUND", SelectionId(r))
  <1>1. /\ r.kind \in Binds /\ thread[t].pc # "idle" /\ ~Owns(thread[t])
        /\ SelectionId(r) \in store.roots \cap store.selections
    BY ThreadFacts DEF BindRecord, ThreadAt, KindOK, ThreadOK, CopyOK, Owns
  <1>2. Justified(r, a, store) /\ r.kind \notin Reserving
    BY <1>1 DEF Justified, Reserving, Executions, Binds
  <1>3. /\ RecordIdempotency(r, a)
        /\ Answering(t, IF Conflicts(r) THEN Error("SOURCE_BINDING_REJECTED") ELSE a)
        /\ UNCHANGED <<sent, runs, roots, runRev, selections, imports, registry,
                       review, history, plan, truth, scheduled, queue, answers,
                       apiFaults>>
    BY DEF BindRecord, Req
  <1> HIDE DEF a
  <1>4. QED
    BY <1>1, <1>2, <1>3, Errors, RecordStep

\* A step that no thread takes.
LEMMA EnvironmentStep ==
    ASSUME ApiInv, UNCHANGED <<sent, thread, answers, apiFaults>>, StoreOK(store'),
           StoreKept(store, store'), Discipline(store, store', IdleThread)
    PROVE  ApiInv'
  <1>1. HistoryOK(store) /\ HistoryOK(store') /\ RootsOK(store) /\ RootsOK(store')
    BY DEF ApiInv, StoreOK
  <1>2. ASSUME NEW u \in Threads PROVE ThreadOK(thread[u], store')
    BY <1>1, IdleOK, ThreadStable DEF ApiInv
  <1>3. ASSUME NEW r \in Requests, NEW a \in answers[r] PROVE AnswerOK(r, a, store')
    BY <1>1, <1>3, IdleOK, AnswerStable DEF ApiInv
  <1>4. OwnersDiffer'
    BY DEF ApiInv, OwnersDiffer
  <1>5. QED
    BY <1>2, <1>3, <1>4 DEF ApiInv

LEMMA WorkerStep ==
    ASSUME ApiInv, WorkerTouchesRun
    PROVE  ApiInv'
  <1>1. StoreOK(store)
    BY DEF ApiInv
  <1>2. /\ store'.idem = store.idem /\ store'.runs = store.runs
        /\ store'.selections = store.selections /\ store'.imports = store.imports
        /\ store'.registry = store.registry /\ store'.review = store.review
        /\ store'.history = store.history /\ store'.plan = store.plan
        /\ store'.truth = store.truth /\ store'.scheduled = store.scheduled
        /\ store'.queue = store.queue /\ store'.roots = store.roots
        /\ store'.runRev = store.runRev + 1
    BY Fields, NextFields DEF WorkerTouchesRun
  <1>3. StoreKept(store, store') /\ Discipline(store, store', IdleThread) /\ RootsOK(store')
    BY <1>1, <1>2 DEF StoreKept, Discipline, StoreOK, HistoryOK, RootsOK
  <1>4. /\ IdemOK(store') /\ RunsOK(store') /\ QueueOK(store')
        /\ HistoryOK(store') /\ PlansOK(store') /\ store'.registry \subseteq store'.imports
    BY <1>1, <1>2, <1>3, PartsStable
  <1>5. \A q \in Requests : Under(q, store') = Under(q, store)
    BY <1>2 DEF Under
  <1>6. StoreOK(store')
    BY <1>1, <1>3, <1>4, <1>5, IdleOK, StoreStep
  <1>7. QED
    BY <1>3, <1>6, EnvironmentStep DEF WorkerTouchesRun

LEMMA StageStep ==
    ASSUME ApiInv, NEW s \in {"SOURCE_DISCOVERY", "CANONICAL_HYPOTHESES"},
           StageSucceeds(s)
    PROVE  ApiInv'
  <1>1. StoreOK(store) /\ truth \in Truth
    BY Fields DEF ApiInv, StoreOK, PlansOK
  <1>2. /\ store'.idem = store.idem /\ store'.runs = store.runs
        /\ store'.selections = store.selections /\ store'.imports = store.imports
        /\ store'.registry = store.registry /\ store'.review = store.review
        /\ store'.history = store.history /\ store'.plan = store.plan
        /\ store'.scheduled = store.scheduled
        /\ store'.queue = store.queue /\ store'.roots = store.roots
        /\ store'.runRev = store.runRev /\ store'.truth = truth'
    BY Fields, NextFields DEF StageSucceeds
  <1>3. truth' \in Truth /\ truth'.sources = truth.sources
    BY <1>1 DEF StageSucceeds, Truth
  <1>4. StoreKept(store, store') /\ Discipline(store, store', IdleThread)
    BY <1>1, <1>2, <1>3, Fields DEF StoreKept, Discipline, StoreOK, HistoryOK, RootsOK
  <1>5. PlansOK(store')
    <2>1. store.plan # NoPlan
      BY Fields DEF StageSucceeds
    <2>2. PlanSound(store.plan, store.truth) => PlanSound(store.plan, truth')
      BY <1>3, Fields DEF PlanSound, MatchingDecision
    <2>3. QED
      BY <1>1, <1>2, <1>3, <2>1, <2>2 DEF PlansOK, StoreOK
  <1>6. /\ IdemOK(store') /\ RunsOK(store') /\ QueueOK(store')
        /\ HistoryOK(store') /\ RootsOK(store') /\ store'.registry \subseteq store'.imports
    BY <1>1, <1>2, <1>4, PartsStable
  <1>7. \A q \in Requests : Under(q, store') = Under(q, store)
    BY <1>2 DEF Under
  <1>8. StoreOK(store')
    BY <1>1, <1>4, <1>5, <1>6, <1>7, IdleOK, StoreStep
  <1>9. QED
    BY <1>4, <1>8, EnvironmentStep DEF StageSucceeds

-----------------------------------------------------------------------------
(* Reviews.                                                                *)

LEMMA ReviewReadStep ==
    ASSUME ApiInv, NEW t \in Threads, ReviewRead(t)
    PROVE  ApiInv'
  <1> DEFINE r == thread[t].req
             me == MovedTo(thread[t], "review_record")
             stale == review.rev # r.body.expected
             missing == r.kind = "invalidate" /\ review.rev = 0
  <1>1. /\ r \in Requests /\ r.kind \in Reviews /\ thread[t].pc # "idle"
        /\ IsThread(thread[t])
    BY ThreadFacts DEF ReviewRead, ThreadAt, KindOK
  <1>2. UNCHANGED <<sent, storeVars, answers, apiFaults>> /\ apiFaults' \in 0 .. MaxApiFaults
    BY ThreadFacts DEF ReviewRead
  <1>3. \/ Answering(t, Error("REVIEW_NOT_FOUND"))
        \/ Answering(t, Error("REVIEW_REVISION_CONFLICT"))
        \/ Answering(t, Reused)
        \/ ThreadGoto(t, "review_record")
    <2>1. CASE (stale \/ missing) /\ Fresh(r)
      <3>1. Answering(t, IF missing THEN Error("REVIEW_NOT_FOUND")
                         ELSE Error("REVIEW_REVISION_CONFLICT"))
        BY <2>1 DEF ReviewRead, Req
      <3>2. QED
        BY <3>1
    <2>2. CASE ~((stale \/ missing) /\ Fresh(r))
      BY <2>2 DEF ReviewRead, Req
    <2>3. QED
      BY <2>1, <2>2
  <1>4. CASE ThreadGoto(t, "review_record")
    <2>1. thread' = [thread EXCEPT ![t] = me]
      BY <1>4 DEF ThreadGoto, ThreadBecomes, MovedTo
    <2>2. IsThread(me) /\ me.pc = "review_record" /\ me.req = r
      BY <1>1, Moved
    <2> HIDE DEF me
    <2>3. ThreadOK(me, store) /\ ~Owns(me)
      BY <1>1, <2>2 DEF ThreadOK, KindOK, CopyOK, Owns
    <2>4. QED
      BY <1>2, <2>1, <2>3, ReadStep
  <1>5. QED
    BY <1>1, <1>2, <1>3, <1>4, Errors, RefuseStep

\* The history with the entry of a review that was expected.
LEMMA HistoryGrows ==
    ASSUME NEW S, NEW T, StoreOK(S), NEW r \in Requests, r.kind \in Reviews,
           Under(r, S).state = "ABSENT", r.body.expected = Len(S.history),
           T.history = Append(S.history, ReviewEntry(r)),
           T.review.rev = r.body.expected + 1,
           \A k \in Scopes : S.idem[k].state # "ABSENT" => T.idem[k].state # "ABSENT",
           Under(r, T).state # "ABSENT"
    PROVE  /\ HistoryOK(T) /\ Len(T.history) = Len(S.history) + 1
           /\ T.history[r.body.expected + 1] = ReviewEntry(r)
           /\ \A i \in 1 .. Len(S.history) : T.history[i] = S.history[i]
  <1> DEFINE n == Len(S.history)
             e == ReviewEntry(r)
  <1>1. S.history \in Seq(Entries) /\ n \in Nat
    BY DEF StoreOK, HistoryOK
  <1>2. e \in Entries /\ e.rev = n + 1 /\ e.by = Scope(r)
    BY <1>1, ScopeIn DEF ReviewEntry, Entries, Decisions
  <1> HIDE DEF e
  <1>3. /\ T.history \in Seq(Entries) /\ Len(T.history) = n + 1
        /\ T.history[n + 1] = e /\ \A i \in 1 .. n : T.history[i] = S.history[i]
    BY <1>1, <1>2 DEF e
  <1>4. ASSUME NEW i \in 1 .. n
        PROVE  /\ S.history[i].rev = i /\ S.history[i].by \in Scopes
               /\ S.idem[S.history[i].by].state # "ABSENT"
               /\ S.history[i].by # Scope(r)
    <2>1. S.history[i] \in Entries
      BY <1>1
    <2>2. S.history[i].rev = i /\ S.idem[S.history[i].by].state # "ABSENT"
      BY DEF StoreOK, HistoryOK
    <2>3. S.history[i].by \in Scopes
      BY <2>1 DEF Entries
    <2>4. QED
      BY <2>2, <2>3 DEF Under
  <1>5. ASSUME NEW i \in 1 .. n + 1
        PROVE  T.history[i].rev = i /\ T.idem[T.history[i].by].state # "ABSENT"
    <2>1. CASE i \in 1 .. n
      BY <1>3, <1>4, <2>1
    <2>2. CASE i = n + 1
      BY <1>2, <1>3, <2>2 DEF Under
    <2>3. QED
      BY <1>1, <2>1, <2>2
  <1>6. ASSUME NEW i \in 1 .. n + 1, NEW j \in 1 .. n + 1,
               T.history[i].by = T.history[j].by
        PROVE  i = j
    <2>1. CASE i \in 1 .. n /\ j \in 1 .. n
      BY <1>3, <1>6, <2>1 DEF StoreOK, HistoryOK
    <2>2. CASE i \in 1 .. n /\ j = n + 1
      BY <1>2, <1>3, <1>4, <1>6, <2>2
    <2>3. CASE i = n + 1 /\ j \in 1 .. n
      BY <1>2, <1>3, <1>4, <1>6, <2>3
    <2>4. QED
      BY <1>1, <2>1, <2>2, <2>3
  <1>7. HistoryOK(T)
    BY <1>3, <1>5, <1>6 DEF HistoryOK
  <1>8. QED
    BY <1>3, <1>7 DEF e

LEMMA ReviewRecordStep ==
    ASSUME ApiInv, NEW t \in Threads, ReviewRecord(t)
    PROVE  ApiInv'
  <1> DEFINE r == thread[t].req
             a == ReviewTold(r)
  <1>1. /\ r \in Requests /\ r.kind \in Reviews /\ thread[t].pc # "idle"
        /\ ~Owns(thread[t]) /\ StoreOK(store)
    BY ThreadFacts DEF ReviewRecord, ThreadAt, KindOK, Owns
  <1>2. UNCHANGED <<sent, runs, roots, runRev, selections, imports, registry,
                    plan, truth, scheduled, queue, answers, apiFaults>>
    BY DEF ReviewRecord
  <1>3. CASE /\ ~Fresh(r)
             /\ Answering(t, IF Conflicts(r) THEN Reused ELSE Stored(r).answer)
             /\ UNCHANGED <<idem, review, history>>
    <2>1. UNCHANGED storeVars
      BY <1>2, <1>3 DEF storeVars
    <2>2. QED
      BY <1>1, <1>2, <1>3, <2>1, ReplayStep DEF Reviews
  <1>4. CASE Fresh(r) /\ RecordReview(r) /\ Keep(r, "COMPLETED", a) /\ Answering(t, a)
    <2>1. /\ store'.review.rev = r.body.expected + 1
          /\ store.review.rev = r.body.expected
          /\ store'.history = Append(store.history, ReviewEntry(r))
      BY <1>4, Fields, NextFields DEF RecordReview, ReviewEntry
    <2>2. r.body.expected = Len(store.history)
      BY <1>1, <2>1 DEF StoreOK, HistoryOK
    <2>3. Under(r, store).state = "ABSENT" /\ Scope(r) \in Scopes /\ DOMAIN store.idem = Scopes
      BY <1>1, <1>4, Fields, ScopeIn DEF Fresh, Stored, Under, StoreOK, IdemOK
    <2>4. store'.idem = [store.idem EXCEPT ![Scope(r)] = Record("COMPLETED", r, a)]
      BY <1>4, Fields, NextFields DEF Keep
    <2>5. Record("COMPLETED", r, a).state = "COMPLETED"
      BY DEF Record
    <2> HIDE DEF a, r
    <2>6. Under(r, store').state # "ABSENT"
      BY <2>3, <2>4, <2>5 DEF Under
    <2>7. \A k \in Scopes \ {Scope(r)} : store'.idem[k] = store.idem[k]
      BY <2>3, <2>4
    <2>8. \A k \in Scopes : store.idem[k].state # "ABSENT" => store'.idem[k] = store.idem[k]
      BY <2>3, <2>7 DEF Under
    <2>9. \A k \in Scopes : store.idem[k].state # "ABSENT" => store'.idem[k].state # "ABSENT"
      BY <2>8
    <2>10. /\ HistoryOK(store') /\ Len(store'.history) = Len(store.history) + 1
           /\ store'.history[r.body.expected + 1] = ReviewEntry(r)
           /\ \A i \in 1 .. Len(store.history) : store'.history[i] = store.history[i]
      BY <1>1, <2>1, <2>2, <2>3, <2>6, <2>9, HistoryGrows
    <2>11. /\ store'.runs = store.runs
           /\ store'.registry = store.registry /\ store'.imports = store.imports
           /\ store'.selections = store.selections /\ store'.queue = store.queue
           /\ store'.roots = store.roots /\ store'.runRev = store.runRev
           /\ store'.plan = store.plan /\ store'.truth = store.truth
      BY <1>2, Fields, NextFields
    <2>12. Len(store.history) \in Nat /\ store.runRev \in Nat
      BY <1>1 DEF StoreOK, HistoryOK, RootsOK
    <2>13. StoreKept(store, store')
      BY <2>8, <2>10, <2>11, <2>12 DEF StoreKept
    <2>14. Justified(r, a, store')
      BY <1>1, <2>2, <2>10, <2>12 DEF Justified, a
    <2>15. RunsOK(store')
      BY <1>1, <2>11, <2>13, PartsStable
    <2>16. r.kind \notin Reserving
      BY <1>1 DEF Reserving, Reviews, Executions
    <2>17. QED
      BY <1>1, <1>2, <1>4, <2>10, <2>13, <2>14, <2>15, <2>16, CompleteFresh DEF r
  <1>5. CASE /\ Answering(t, Error("REVIEW_REVISION_CONFLICT"))
             /\ UNCHANGED <<idem, review, history>>
    <2>1. UNCHANGED storeVars
      BY <1>2, <1>5 DEF storeVars
    <2>2. QED
      BY <1>1, <1>2, <1>5, <2>1, Errors, RefuseStep
  <1>6. QED
    BY <1>3, <1>4, <1>5 DEF ReviewRecord, Req, ReviewTold

-----------------------------------------------------------------------------
(* Reserved keys.                                                          *)

\* A step that writes the record under the thread's key and nothing else.
LEMMA KeyStep ==
    ASSUME ApiInv, NEW t \in Threads, thread[t].pc # "idle", NEW me,
           thread' = [thread EXCEPT ![t] = me], NEW state, NEW a,
           Keep(thread[t].req, state, a), GoodRecord(thread[t].req, state, a, store),
           \/ Under(thread[t].req, store).state = "ABSENT"
           \/ Owns(thread[t]),
           UNCHANGED <<sent, runs, roots, runRev, selections, imports, registry,
                       review, history, plan, truth, scheduled, queue, answers>>,
           apiFaults' \in 0 .. MaxApiFaults,
           Under(thread[t].req, store') = Record(state, thread[t].req, a) =>
              ThreadOK(me, store'),
           Owns(me) => me.req = thread[t].req
    PROVE  ApiInv'
  <1> DEFINE r == thread[t].req
  <1>1. r \in Requests /\ StoreOK(store) /\ ThreadOK(thread[t], store)
    BY ThreadFacts
  <1>2. /\ store'.runs = store.runs
        /\ store'.registry = store.registry /\ store'.imports = store.imports
        /\ store'.selections = store.selections /\ store'.queue = store.queue
        /\ store'.roots = store.roots /\ store'.runRev = store.runRev
        /\ store'.history = store.history /\ store'.review = store.review
        /\ store'.plan = store.plan /\ store'.truth = store.truth
        /\ store'.scheduled = store.scheduled
        /\ store'.idem = [store.idem EXCEPT ![Scope(r)] = Record(state, r, a)]
    BY Fields, NextFields DEF Keep
  <1>3. GoodRecord(r, state, a, store')
    BY <1>2 DEF GoodRecord, Justified
  <1>4. MayKeep(r, store)
    BY <1>1 DEF MayKeep, ThreadOK
  <1>5. /\ IdemOK(store') /\ Under(r, store') = Record(state, r, a)
        /\ \A k \in Scopes \ {Scope(r)} : store'.idem[k] = store.idem[k]
        /\ \A q \in Requests : Under(q, store') # Under(q, store) => RecordOK(q, store')
        /\ \A k \in Scopes : store.idem[k].state # "ABSENT" =>
              store'.idem[k].state # "ABSENT" /\ store'.idem[k].fp = store.idem[k].fp
        /\ \A k \in Scopes : store.idem[k].state = "COMPLETED" => store'.idem[k] = store.idem[k]
    <2> HIDE DEF r
    <2>1. QED
      BY <1>1, <1>2, <1>3, <1>4, KeepIdem
  <1>6. StoreKept(store, store')
    BY <1>1, <1>2, <1>5, KeptBy
  <1>7. Discipline(store, store', thread[t])
    BY <1>2, <1>5 DEF Discipline, Under
  <1>8. /\ RunsOK(store') /\ QueueOK(store') /\ RootsOK(store')
        /\ HistoryOK(store') /\ PlansOK(store') /\ store'.registry \subseteq store'.imports
    BY <1>1, <1>2, <1>6, PartsStable
  <1>9. StoreOK(store')
    BY <1>1, <1>5, <1>6, <1>7, <1>8, StoreStep
  <1>10. DOMAIN answers' = Requests
    BY ThreadFacts
  <1>11. QED
    BY <1>5, <1>6, <1>7, <1>9, <1>10, ThreadStep

LEMMA ReserveStep ==
    ASSUME ApiInv, NEW t \in Threads, ReserveKey(t)
    PROVE  ApiInv'
  <1> DEFINE r == thread[t].req
             first == IF r.kind = "prepare" THEN Nothing ELSE Unknown(r)
             pc == IF r.kind = "prepare" THEN "plan_read" ELSE "submit"
             me == MovedTo(thread[t], pc)
  <1>1. /\ r \in Requests /\ r.kind \in Reserving /\ thread[t].pc # "idle"
        /\ IsThread(thread[t]) /\ StoreOK(store) /\ apiFaults \in 0 .. MaxApiFaults
    BY ThreadFacts DEF ReserveKey, ThreadAt, KindOK
  <1>2. UNCHANGED <<sent, runs, roots, runRev, selections, imports, registry,
                    review, history, plan, truth, scheduled, queue, answers, apiFaults>>
    BY DEF ReserveKey
  <1>3. CASE Fresh(r) /\ Keep(r, "RESERVED", first) /\ ThreadGoto(t, pc)
    <2>1. thread' = [thread EXCEPT ![t] = me]
      BY <1>3 DEF ThreadGoto, ThreadBecomes, MovedTo
    <2>2. IsThread(me) /\ me.pc = pc /\ me.req = r
      BY <1>1, Moved
    <2>3. Under(r, store).state = "ABSENT"
      BY <1>3, Fields DEF Fresh, Stored, Under
    <2>4. CommandId(r) \notin store.queue
      <3> SUFFICES ASSUME CommandId(r) \in store.queue PROVE FALSE
        OBVIOUS
      <3>1. PICK q \in Requests : CommandId(r) = CommandId(q) /\ Under(q, store).state # "ABSENT"
        BY <1>1 DEF StoreOK, QueueOK
      <3>2. q = r
        BY <1>1, <3>1, SameCommand
      <3>3. QED
        BY <2>3, <3>1, <3>2
    <2>5. GoodRecord(r, "RESERVED", first, store)
      BY <1>1 DEF GoodRecord
    <2>6. store'.queue = store.queue
      BY <1>2, Fields, NextFields
    <2>7. /\ Record("RESERVED", r, first).state = "RESERVED"
          /\ Record("RESERVED", r, first).fp = r.body
      BY DEF Record
    <2>8. Record("RESERVED", r, first) = Under(r, store') =>
             Under(r, store').state = "RESERVED" /\ Under(r, store').fp = r.body
      BY <2>7
    <2> HIDE DEF me, first
    <2>9. KindOK(me) /\ CopyOK(me, store')
      BY <1>1, <2>2 DEF KindOK, CopyOK, Reserving, Executions
    <2>10. Under(r, store').state = "RESERVED" /\ Under(r, store').fp = r.body =>
              ThreadOK(me, store')
      BY <2>2, <2>4, <2>6, <2>9 DEF ThreadOK
    <2>11. QED
      BY <1>1, <1>2, <1>3, <2>1, <2>2, <2>3, <2>5, <2>8, <2>10, KeyStep
  <1>4. CASE ~Fresh(r) /\ UNCHANGED idem
    <2> DEFINE b == IF Conflicts(r) THEN Reused
                    ELSE IF Stored(r).answer = Nothing
                    THEN Error("PLAN_PREPARATION_REPLAY_INVALID")
                    ELSE Stored(r).answer
    <2>1. Answering(t, b)
      BY <1>4 DEF ReserveKey, Req
    <2>2. b.code \in Definite => AnswerOK(r, b, store)
      BY <1>1, <1>4, ReplayOK, Errors, Fields DEF Conflicts, Fresh, Stored, Under
    <2>3. UNCHANGED storeVars
      BY <1>2, <1>4 DEF storeVars
    <2> HIDE DEF b
    <2>4. QED
      BY <1>1, <1>2, <2>1, <2>2, <2>3, AnswerStep
  <1>5. QED
    BY <1>3, <1>4 DEF ReserveKey, Req

LEMMA CompleteKeyStep ==
    ASSUME ApiInv, NEW t \in Threads, CompleteKey(t)
    PROVE  ApiInv'
  <1> DEFINE r == thread[t].req
             a == thread[t].answer
             me == MovedTo(thread[t], "reply")
  <1>1. /\ r \in Requests /\ thread[t].pc # "idle" /\ Owns(thread[t])
        /\ Justified(r, a, store) /\ IsThread(thread[t]) /\ apiFaults \in 0 .. MaxApiFaults
    BY ThreadFacts DEF CompleteKey, ThreadAt, Owns, ThreadOK
  <1>2. thread' = [thread EXCEPT ![t] = me] /\ Keep(r, "COMPLETED", a)
    BY DEF CompleteKey, ThreadGoto, ThreadBecomes, MovedTo, Req
  <1>3. UNCHANGED <<sent, runs, roots, runRev, selections, imports, registry,
                    review, history, plan, truth, scheduled, queue, answers, apiFaults>>
    BY DEF CompleteKey
  <1>4. IsThread(me) /\ me.pc = "reply" /\ me.req = r /\ me.answer = a
    BY <1>1, Moved
  <1>5. Justified(r, a, store')
    <2>1. /\ store'.runs = store.runs /\ store'.registry = store.registry
          /\ store'.imports = store.imports /\ store'.selections = store.selections
          /\ store'.roots = store.roots /\ store'.history = store.history
          /\ store'.plan = store.plan /\ store'.queue = store.queue
      BY <1>3, Fields, NextFields
    <2>2. QED
      BY <1>1, <2>1 DEF Justified
  <1> HIDE DEF me
  <1>6. Under(r, store') = Record("COMPLETED", r, a) => ThreadOK(me, store')
    <2>1. KindOK(me) /\ CopyOK(me, store') /\ ~Owns(me)
      BY <1>1, <1>4 DEF KindOK, CopyOK, Owns
    <2>2. QED
      BY <1>4, <1>5, <2>1 DEF ThreadOK, AnswerOK
  <1>7. GoodRecord(r, "COMPLETED", a, store)
    BY <1>1 DEF GoodRecord
  <1>8. QED
    BY <1>1, <1>2, <1>3, <1>4, <1>6, <1>7, KeyStep

LEMMA MarkUnknownStep ==
    ASSUME ApiInv, NEW t \in Threads, MarkUnknown(t)
    PROVE  ApiInv'
  <1> DEFINE r == thread[t].req
             a == Unknown(r)
             me == With(thread[t], "reply", a)
  <1>1. /\ r \in Requests /\ thread[t].pc # "idle" /\ Owns(thread[t])
        /\ IsThread(thread[t]) /\ r.kind \in Executions
    BY ThreadFacts DEF MarkUnknown, Owns, Req
  <1>2. Answering(t, a) /\ thread' = [thread EXCEPT ![t] = me]
    BY DEF MarkUnknown, Answering, ThreadBecomes, With, Req
  <1>3. UNCHANGED <<sent, runs, roots, runRev, selections, imports, registry,
                    review, history, plan, truth, scheduled, queue, answers>>
    BY DEF MarkUnknown
  <1>4. apiFaults' \in 0 .. MaxApiFaults
    BY ThreadFacts, ApiAssumption DEF MarkUnknown
  <1>5. CASE Keep(r, "UNKNOWN", a)
    <2>1. ThreadOK(me, store') /\ ~Owns(me)
      BY <1>1, Errors, ReplyOK
    <2>2. GoodRecord(r, "UNKNOWN", a, store)
      BY <1>1 DEF GoodRecord
    <2> HIDE DEF me, a
    <2>3. QED
      BY <1>1, <1>2, <1>3, <1>4, <1>5, <2>1, <2>2, KeyStep
  <1>6. CASE UNCHANGED idem
    <2>1. UNCHANGED storeVars
      BY <1>3, <1>6 DEF storeVars
    <2>2. a.code \notin Definite
      BY Errors
    <2> HIDE DEF me, a
    <2>3. QED
      BY <1>1, <1>2, <1>3, <1>4, <2>1, <2>2, AnswerStep
  <1>7. QED
    BY <1>5, <1>6 DEF MarkUnknown, Req

\* A thread that owns its key has its answer and goes on to keep it.
LEMMA CompletingOK ==
    ASSUME NEW me, IsThread(me), me.req \in Requests, me.req.kind \in Reserving,
           NEW a, NEW S, Justified(me.req, a, S),
           Under(me.req, S).state = "RESERVED", Under(me.req, S).fp = me.req.body
    PROVE  /\ ThreadOK(With(me, "complete", a), S)
           /\ With(me, "complete", a).req = me.req
  <1> DEFINE next == With(me, "complete", a)
  <1>1. IsThread(next) /\ next.pc = "complete" /\ next.req = me.req /\ next.answer = a
    BY Answered
  <1> HIDE DEF next
  <1>2. KindOK(next) /\ CopyOK(next, S)
    BY <1>1 DEF KindOK, CopyOK
  <1>3. QED
    BY <1>1, <1>2 DEF ThreadOK, next

\* A plan step of a thread that changes nothing in the store.
LEMMA CompletingStep ==
    ASSUME ApiInv, NEW t \in Threads, Owns(thread[t]), NEW a, Completing(t, a),
           Justified(thread[t].req, a, store),
           UNCHANGED <<sent, storeVars, answers, apiFaults>>
    PROVE  ApiInv'
  <1> DEFINE r == thread[t].req
             me == With(thread[t], "complete", a)
  <1>1. /\ r \in Requests /\ r.kind \in Reserving /\ IsThread(thread[t])
        /\ Under(r, store).state = "RESERVED" /\ Under(r, store).fp = r.body
    BY ThreadFacts DEF Owns, KindOK, ThreadOK, Reserving
  <1>2. ThreadOK(me, store) /\ me.req = r
    BY <1>1, CompletingOK
  <1>3. thread' = [thread EXCEPT ![t] = me]
    BY DEF Completing, ThreadBecomes, With
  <1>4. apiFaults' \in 0 .. MaxApiFaults
    BY ThreadFacts
  <1> HIDE DEF me
  <1>5. QED
    BY <1>2, <1>3, <1>4, ReadStep

-----------------------------------------------------------------------------
(* Plans.                                                                  *)

\* What a plan may become.
Forward(p, q) ==
    /\ q.intent = p.intent
    /\ PhaseRank[q.phase] >= PhaseRank[p.phase]
    /\ q # p => q.rev > p.rev
    /\ p.matching # "pending" => q.matching = p.matching
    /\ p.er # "pending" => q.er = p.er

LEMMA PreparedSound ==
    ASSUME NEW facts \in Truth, NEW intent \in Intent
    PROVE  LET p == PreparedPlan(facts, intent) IN
           PlanSound(p, facts) /\ p.intent = intent
  BY DEF PreparedPlan, Complete, SourceResolved, Bootstrap, PlanSound, Plan, Phase,
         Decision, MatchingDecision, ErDecision, Chosen

LEMMA SelectedKept ==
    ASSUME NEW p, NEW q, p.matching # "pending" => q.matching = p.matching,
           p.er # "pending" => q.er = p.er
    PROVE  Selected(p) \subseteq Selected(q)
  BY DEF Selected

LEMMA RevisedFields ==
    ASSUME NEW p \in Plan
    PROVE  LET q == NextRevision(p) IN
           /\ q \in Plan /\ q.phase = p.phase /\ q.intent = p.intent
           /\ q.rev = p.rev + 1 /\ q.matching = p.matching /\ q.er = p.er
  BY DEF NextRevision, Plan

LEMMA PhaseRanks ==
    /\ PhaseRank["BOOTSTRAP"] = 0 /\ PhaseRank["SOURCE_RESOLVED"] = 1
    /\ PhaseRank["COMPLETE"] = 2
  BY DEF PhaseRank, Phase

LEMMA AdvancedSound ==
    ASSUME NEW facts \in Truth, NEW p, PlanSound(p, facts), NEW stage
    PROVE  LET q == AdvancedPlan(p, facts, stage) IN
           PlanSound(q, facts) /\ Forward(p, q) /\ Selected(p) \subseteq Selected(q)
  <1> DEFINE q == AdvancedPlan(p, facts, stage)
  <1> SUFFICES PlanSound(q, facts) /\ Forward(p, q) /\ Selected(p) \subseteq Selected(q)
    OBVIOUS
  <1>1. /\ p \in Plan /\ p.phase \in Phase /\ p.rev \in Nat /\ p.intent \in Intent
        /\ PhaseRank[p.phase] \in 0 .. 2
    BY PhaseRanks DEF PlanSound, Plan, Phase
  <1>2. CASE p.phase = "BOOTSTRAP" /\ q = SourceResolved(facts, p.intent, p.rev + 1)
    <2>1. /\ q \in Plan /\ q.phase = "SOURCE_RESOLVED" /\ q.intent = p.intent
          /\ q.rev = p.rev + 1 /\ q.matching = MatchingDecision(facts) /\ q.er = "pending"
      BY <1>1, <1>2 DEF SourceResolved, Plan, Phase, MatchingDecision, Chosen, Decision
    <2> HIDE DEF q
    <2>2. QED
      BY <1>1, <1>2, <2>1, PhaseRanks, SelectedKept DEF PlanSound, Forward
  <1>3. CASE p.phase = "SOURCE_RESOLVED" /\ q = Complete(facts, p.intent, p.rev + 1)
    <2>1. /\ q \in Plan /\ q.phase = "COMPLETE" /\ q.intent = p.intent
          /\ q.rev = p.rev + 1 /\ q.matching = MatchingDecision(facts)
      BY <1>1, <1>3 DEF Complete, Plan, Phase, MatchingDecision, ErDecision, Chosen, Decision
    <2> HIDE DEF q
    <2>2. QED
      BY <1>1, <1>3, <2>1, PhaseRanks, SelectedKept DEF PlanSound, Forward
  <1>4. CASE q = NextRevision(p)
    <2>1. /\ q \in Plan /\ q.phase = p.phase /\ q.intent = p.intent
          /\ q.rev = p.rev + 1 /\ q.matching = p.matching /\ q.er = p.er
      BY <1>1, <1>4, RevisedFields
    <2> HIDE DEF q
    <2>2. QED
      BY <1>1, <2>1, SelectedKept DEF PlanSound, Forward
  <1>5. CASE q = p
    <2> HIDE DEF q
    <2>1. QED
      BY <1>1, <1>5 DEF Forward
  <1>6. QED
    BY <1>2, <1>3, <1>4, <1>5 DEF AdvancedPlan

\* A thread that has read or computed a plan.
Planning(me, c, p) == [me EXCEPT !.pc = c, !.plan = p]

LEMMA PlanningFields ==
    ASSUME NEW me, IsThread(me), NEW c, NEW p
    PROVE  LET next == Planning(me, c, p) IN
           /\ IsThread(next) /\ next.pc = c /\ next.req = me.req /\ next.plan = p
  <1> DEFINE moved == MovedTo(me, c)
             next == [moved EXCEPT !.plan = p]
  <1>1. IsThread(moved) /\ moved.pc = c /\ moved.req = me.req
    BY Moved
  <1>2. next = Planning(me, c, p)
    BY DEF IsThread, MovedTo, Planning
  <1> HIDE DEF moved
  <1>3. IsThread(next) /\ next.pc = moved.pc /\ next.req = moved.req /\ next.plan = p
    BY <1>1 DEF IsThread
  <1>4. QED
    BY <1>1, <1>2, <1>3

LEMMA PlanReadStep ==
    ASSUME ApiInv, NEW t \in Threads, PlanRead(t)
    PROVE  ApiInv'
  <1> DEFINE r == thread[t].req
  <1>1. /\ r \in Requests /\ r.kind = "prepare" /\ Owns(thread[t]) /\ IsThread(thread[t])
        /\ StoreOK(store) /\ ThreadOK(thread[t], store) /\ apiFaults \in 0 .. MaxApiFaults
        /\ r.body.intent \in Intent
    BY ThreadFacts, Kinds DEF PlanRead, ThreadAt, KindOK, Owns
  <1>2. UNCHANGED <<sent, storeVars, answers, apiFaults>>
    BY DEF PlanRead
  <1>3. CASE plan # NoPlan
    <2>1. Completing(t, Prepared(plan, r.body.intent))
      BY <1>3 DEF PlanRead, Req
    <2>2. Justified(r, Prepared(plan, r.body.intent), store)
      BY <1>1, <1>3, Fields DEF Justified, Prepared
    <2>3. QED
      BY <1>1, <1>2, <2>1, <2>2, CompletingStep
  <1>4. CASE plan = NoPlan
    <2> DEFINE p == PreparedPlan(truth, r.body.intent)
               me == Planning(thread[t], "plan_register", p)
    <2>1. thread' = [thread EXCEPT ![t] = me]
      BY <1>4 DEF PlanRead, ThreadBecomes, Planning, Req
    <2>2. PlanSound(p, store.truth) /\ p.intent = r.body.intent
      BY <1>1, PreparedSound, Fields DEF StoreOK, PlansOK
    <2> HIDE DEF p
    <2>3. IsThread(me) /\ me.pc = "plan_register" /\ me.req = r /\ me.plan = p
      BY <1>1, PlanningFields
    <2> HIDE DEF me
    <2>4. KindOK(me) /\ CopyOK(me, store)
      BY <1>1, <2>3 DEF KindOK, CopyOK
    <2>5. ThreadOK(me, store)
      BY <1>1, <2>2, <2>3, <2>4 DEF ThreadOK
    <2>6. QED
      BY <1>1, <1>2, <2>1, <2>3, <2>5, ReadStep
  <1>5. QED
    BY <1>3, <1>4

\* A thread registers its plan, queues its command, or advances the plan.
LEMMA PlanStep ==
    ASSUME ApiInv, NEW t \in Threads, NEW me, thread' = [thread EXCEPT ![t] = me],
           UNCHANGED <<sent, idem, runs, roots, runRev, selections, imports, registry,
                       review, history, truth, answers, apiFaults>>,
           queue \subseteq queue', QueueOK(store'), PlansOK(store'),
           plan # NoPlan => plan' # NoPlan /\ plan'.intent = plan.intent,
           \A r \in Requests : CommandId(r) \in queue' \ queue =>
              Owns(thread[t]) /\ Scope(thread[t].req) = Scope(r),
           ThreadOK(me, store'),
           Owns(me) => Owns(thread[t]) /\ me.req = thread[t].req
    PROVE  ApiInv'
  <1>1. StoreOK(store) /\ ThreadOK(thread[t], store)
    BY ThreadFacts
  <1>2. /\ store'.idem = store.idem /\ store'.runs = store.runs
        /\ store'.selections = store.selections /\ store'.imports = store.imports
        /\ store'.registry = store.registry /\ store'.review = store.review
        /\ store'.history = store.history /\ store'.truth = store.truth
        /\ store'.roots = store.roots /\ store'.runRev = store.runRev
        /\ store'.queue = queue' /\ store.queue = queue
        /\ store'.plan = plan' /\ store.plan = plan
    BY Fields, NextFields
  <1>3. StoreKept(store, store')
    BY <1>1, <1>2 DEF StoreKept, StoreOK, HistoryOK, RootsOK
  <1>4. Discipline(store, store', thread[t])
    BY <1>2 DEF Discipline
  <1>5. /\ IdemOK(store') /\ RunsOK(store') /\ RootsOK(store') /\ HistoryOK(store')
        /\ store'.registry \subseteq store'.imports
    BY <1>1, <1>2, <1>3, PartsStable
  <1>6. \A r \in Requests : Under(r, store') = Under(r, store)
    BY <1>2 DEF Under
  <1>7. StoreOK(store')
    BY <1>1, <1>3, <1>4, <1>5, <1>6, StoreStep
  <1>8. apiFaults' \in 0 .. MaxApiFaults /\ DOMAIN answers' = Requests
    BY ThreadFacts
  <1>9. QED
    BY <1>3, <1>4, <1>7, <1>8, ThreadStep

LEMMA PlanRegisterStep ==
    ASSUME ApiInv, NEW t \in Threads, PlanRegister(t)
    PROVE  ApiInv'
  <1> DEFINE r == thread[t].req
             mine == thread[t].plan
             ready == Answer("READY", <<r.body.intent>>)
             me == With(thread[t], "complete", ready)
  <1>1. /\ r \in Requests /\ r.kind = "prepare" /\ Owns(thread[t]) /\ IsThread(thread[t])
        /\ StoreOK(store) /\ ThreadOK(thread[t], store)
        /\ PlanSound(mine, store.truth) /\ mine.intent = r.body.intent
        /\ Under(r, store).state = "RESERVED" /\ Under(r, store).fp = r.body
    BY ThreadFacts DEF PlanRegister, ThreadAt, KindOK, Owns, ThreadOK
  <1>2. UNCHANGED <<sent, idem, runs, roots, runRev, selections, imports, registry,
                    review, history, truth, scheduled, queue, answers, apiFaults>>
    BY DEF PlanRegister
  <1>3. CASE RegisterPlan(mine) /\ Completing(t, ready)
    <2>1. thread' = [thread EXCEPT ![t] = me]
      BY <1>3 DEF Completing, ThreadBecomes, With
    <2>2. /\ store.plan = NoPlan /\ store'.plan = mine /\ mine # NoPlan
          /\ store'.truth = store.truth /\ store'.scheduled = store.scheduled
          /\ store'.idem = store.idem /\ store'.queue = store.queue
      BY <1>1, <1>2, <1>3, Fields, NextFields, ApiAssumption DEF RegisterPlan, PlanSound
    <2>3. PlansOK(store')
      BY <1>1, <2>2 DEF PlansOK, StoreOK
    <2>4. QueueOK(store')
      BY <1>1, <2>2 DEF QueueOK, StoreOK, Under
    <2>5. Justified(r, ready, store')
      BY <1>1, <2>2 DEF Justified
    <2>6. Under(r, store') = Under(r, store) /\ r.kind \in Reserving
      BY <1>1, <2>2 DEF Under, Reserving
    <2> HIDE DEF ready
    <2>7. ThreadOK(me, store') /\ me.req = r
      BY <1>1, <2>5, <2>6, CompletingOK
    <2> HIDE DEF me
    <2>8. QED
      BY <1>1, <1>2, <2>1, <2>2, <2>3, <2>4, <2>7, Fields, NextFields, PlanStep
  <1>4. CASE plan # NoPlan /\ UNCHANGED plan
    <2> DEFINE a == IF plan = mine THEN ready ELSE Answer("BLOCKED", <<"EXISTING_PLAN">>)
    <2>1. Completing(t, a)
      BY <1>4 DEF PlanRegister, RegisterPlan, Req
    <2>2. Justified(r, a, store)
      BY <1>1, <1>4, Fields DEF Justified
    <2>3. UNCHANGED storeVars
      BY <1>2, <1>4 DEF storeVars
    <2> HIDE DEF a
    <2>4. QED
      BY <1>1, <1>2, <2>1, <2>2, <2>3, CompletingStep
  <1>5. QED
    BY <1>3, <1>4 DEF PlanRegister, Req

LEMMA SubmitStep ==
    ASSUME ApiInv, NEW t \in Threads, Submit(t)
    PROVE  ApiInv'
  <1> DEFINE r == thread[t].req
             blocked == Answer("BLOCKED", CommandId(r))
             accepted == Answer("ACCEPTED", CommandId(r))
             me == With(thread[t], "complete", accepted)
  <1>1. /\ r \in Requests /\ r.kind \in Executions /\ Owns(thread[t])
        /\ IsThread(thread[t]) /\ StoreOK(store) /\ CommandId(r) \notin store.queue
        /\ Under(r, store).state = "RESERVED" /\ Under(r, store).fp = r.body
    BY ThreadFacts DEF Submit, ThreadAt, KindOK, Owns, ThreadOK
  <1>2. UNCHANGED <<sent, idem, runs, roots, runRev, selections, imports, registry,
                    review, history, plan, truth, scheduled, answers, apiFaults>>
    BY DEF Submit
  <1>3. CASE r.kind = "submit" /\ plan = NoPlan
    <2>1. Completing(t, blocked) /\ UNCHANGED storeVars
      BY <1>2, <1>3 DEF Submit, Req, storeVars
    <2>2. Justified(r, blocked, store)
      BY <1>1 DEF Justified
    <2> HIDE DEF blocked
    <2>3. QED
      BY <1>1, <1>2, <2>1, <2>2, CompletingStep
  <1>4. CASE ~(r.kind = "submit" /\ plan = NoPlan)
    <2>1. queue' = queue \cup {CommandId(r)} /\ Completing(t, accepted)
      BY <1>4 DEF Submit, Req
    <2>2. thread' = [thread EXCEPT ![t] = me]
      BY <2>1 DEF Completing, ThreadBecomes, With
    <2>3. /\ store'.queue = store.queue \cup {CommandId(r)} /\ store'.idem = store.idem
          /\ store'.plan = store.plan /\ store'.truth = store.truth
          /\ store'.scheduled = store.scheduled
      BY <1>2, <2>1, Fields, NextFields
    <2>4. PlansOK(store')
      BY <1>1, <2>3 DEF PlansOK, StoreOK
    <2>5. \A q : Under(q, store') = Under(q, store)
      BY <2>3 DEF Under
    <2>6. QueueOK(store')
      <3> SUFFICES ASSUME NEW c \in store'.queue
                   PROVE  \E q \in Requests :
                             /\ q.kind \in Executions /\ c = CommandId(q)
                             /\ Under(q, store).state # "ABSENT"
                             /\ Under(q, store).fp = q.body
        BY <2>5 DEF QueueOK
      <3>1. CASE c = CommandId(r)
        BY <1>1, <3>1
      <3>2. CASE c \in store.queue
        BY <1>1, <3>2 DEF StoreOK, QueueOK
      <3>3. QED
        BY <2>3, <3>1, <3>2
    <2>7. \A q \in Requests : CommandId(q) \in queue' \ queue => Scope(r) = Scope(q)
      BY <1>1, <2>1, SameCommand
    <2>8. Justified(r, accepted, store') /\ r.kind \in Reserving
      BY <1>1, <2>3 DEF Justified, Reserving
    <2> HIDE DEF accepted
    <2>9. ThreadOK(me, store') /\ me.req = r
      BY <1>1, <2>5, <2>8, CompletingOK
    <2> HIDE DEF me
    <2>10. QED
      BY <1>1, <1>2, <2>1, <2>2, <2>4, <2>6, <2>7, <2>9, PlanStep
  <1>5. QED
    BY <1>3, <1>4

LEMMA AdvanceReadStep ==
    ASSUME ApiInv, NEW t \in Threads, AdvanceRead(t)
    PROVE  ApiInv'
  <1> DEFINE r == thread[t].req
             me == Planning(thread[t], "advance_write", plan)
  <1>1. /\ r \in Requests /\ r.kind = "advance" /\ store.plan # NoPlan
        /\ IsThread(thread[t])
    BY ThreadFacts DEF AdvanceRead, ThreadAt, KindOK, ThreadOK
  <1>2. UNCHANGED <<sent, storeVars, answers, apiFaults>> /\ apiFaults' \in 0 .. MaxApiFaults
    BY ThreadFacts DEF AdvanceRead
  <1>3. thread' = [thread EXCEPT ![t] = me]
    BY DEF AdvanceRead, ThreadBecomes, Planning
  <1>4. IsThread(me) /\ me.pc = "advance_write" /\ me.req = r
    BY <1>1, PlanningFields
  <1> HIDE DEF me
  <1>5. KindOK(me) /\ CopyOK(me, store) /\ ~Owns(me)
    BY <1>1, <1>4 DEF KindOK, CopyOK, Owns
  <1>6. ThreadOK(me, store)
    BY <1>1, <1>4, <1>5 DEF ThreadOK
  <1>7. QED
    BY <1>2, <1>3, <1>5, <1>6, ReadStep

\* What an advance leaves in the store: the plan a step further, or the plan
\* of whoever was faster; and what is scheduled is selected there.
LEMMA AdvanceEffect ==
    ASSUME ApiInv, NEW t \in Threads, AdvanceWrite(t)
    PROVE  /\ plan # NoPlan /\ PlanSound(plan', truth) /\ Forward(plan, plan')
           /\ scheduled' \subseteq Selected(plan')
  <1> DEFINE stage == Req(t).body.stage
             candidate == AdvancedPlan(thread[t].plan, truth, stage)
             active == AdvanceStoredPlan(thread[t].plan, candidate)
  <1>1. /\ plan # NoPlan /\ truth \in Truth /\ PlanSound(plan, truth)
        /\ scheduled \subseteq Selected(plan)
    <2>1. ThreadOK(thread[t], store) /\ PlansOK(store)
      BY ThreadFacts DEF StoreOK
    <2>2. store.plan # NoPlan
      BY <2>1 DEF ThreadOK, AdvanceWrite, ThreadAt
    <2>3. QED
      BY <2>1, <2>2, Fields DEF PlansOK
  <1>2. plan.rev \in Nat /\ PhaseRank[plan.phase] \in 0 .. 2
    BY <1>1, PhaseRanks DEF PlanSound, Plan, Phase
  <1>3. plan' = active
    BY DEF AdvanceWrite
  <1>4. active = plan \/ active = AdvancedPlan(plan, truth, stage)
    BY DEF AdvanceStoredPlan
  <1>5. scheduled' = scheduled \/ scheduled' = scheduled \cup Selected(active)
    BY DEF AdvanceWrite
  <1> HIDE DEF active, candidate, stage
  <1>6. CASE active = plan
    BY <1>1, <1>2, <1>3, <1>5, <1>6 DEF Forward
  <1>7. CASE active = AdvancedPlan(plan, truth, stage)
    <2>1. /\ PlanSound(active, truth) /\ Forward(plan, active)
          /\ Selected(plan) \subseteq Selected(active)
      BY <1>1, <1>7, AdvancedSound
    <2>2. QED
      BY <1>1, <1>3, <1>5, <2>1
  <1>8. QED
    BY <1>4, <1>6, <1>7

LEMMA AdvanceWriteStep ==
    ASSUME ApiInv, NEW t \in Threads, AdvanceWrite(t)
    PROVE  ApiInv'
  <1>1. /\ plan # NoPlan /\ PlanSound(plan', truth) /\ Forward(plan, plan')
        /\ scheduled' \subseteq Selected(plan')
    BY AdvanceEffect
  <1>2. /\ thread[t].req \in Requests /\ thread[t].pc # "idle" /\ IsThread(thread[t])
        /\ StoreOK(store)
    BY ThreadFacts DEF AdvanceWrite, ThreadAt
  <1>3. PICK c \in {"RUN_BLOCKED", "SCHEDULED"} : Answering(t, Error(c))
    BY DEF AdvanceWrite
  <1>4. UNCHANGED <<sent, idem, runs, roots, runRev, selections, imports, registry,
                    review, history, truth, queue, answers, apiFaults>>
    BY DEF AdvanceWrite
  <1>5. plan' # NoPlan /\ plan'.intent = plan.intent
    BY <1>1, ApiAssumption DEF PlanSound, Forward
  <1>6. /\ store'.plan = plan' /\ store'.scheduled = scheduled' /\ store'.truth = truth
        /\ store.truth = truth /\ store'.queue = store.queue /\ store'.idem = store.idem
    BY <1>4, Fields, NextFields
  <1>7. PlansOK(store') /\ QueueOK(store')
    BY <1>1, <1>2, <1>5, <1>6 DEF PlansOK, StoreOK, QueueOK, Under
  <1> DEFINE me == With(thread[t], "reply", Error(c))
  <1>8. thread' = [thread EXCEPT ![t] = me]
    BY <1>3 DEF Answering, ThreadBecomes, With
  <1>9. ThreadOK(me, store') /\ ~Owns(me)
    BY <1>2, Errors, ReplyOK
  <1> HIDE DEF me
  <1>10. QED
    BY <1>4, <1>5, <1>7, <1>8, <1>9, PlanStep

-----------------------------------------------------------------------------
(* The invariant.                                                          *)

LEMMA ApiInitially == ApiInit => ApiInv
  <1> SUFFICES ASSUME ApiInit PROVE ApiInv
    OBVIOUS
  <1>1. \A k \in Scopes : idem[k] = NoIdem /\ idem[k].state = "ABSENT"
    BY DEF ApiInit, NoIdem
  <1>2. IdemOK(store)
    BY <1>1, Fields DEF ApiInit, IdemOK
  <1>3. RunsOK(store) /\ QueueOK(store) /\ RootsOK(store) /\ store.registry \subseteq store.imports
    BY Fields DEF ApiInit, RunsOK, QueueOK, RootsOK
  <1>4. HistoryOK(store)
    <2>1. store.history = <<>> /\ store.review.rev = 0
      BY Fields DEF ApiInit
    <2>2. store.history \in Seq(Entries) /\ Len(store.history) = 0
      BY <2>1
    <2>3. 1 .. Len(store.history) = {}
      BY <2>2
    <2>4. QED
      BY <2>1, <2>2, <2>3 DEF HistoryOK
  <1>5. PlansOK(store)
    BY Fields DEF ApiInit, PlansOK, Truth
  <1>6. \A r \in Requests : RecordOK(r, store)
    BY <1>1, Fields, ScopeIn DEF RecordOK, Under
  <1>7. StoreOK(store)
    BY <1>2, <1>3, <1>4, <1>5, <1>6 DEF StoreOK
  <1>8. /\ thread = [t \in Threads |-> thread[t]]
        /\ \A t \in Threads : thread[t] = IdleThread
    BY DEF ApiInit
  <1>9. (\A t \in Threads : ThreadOK(thread[t], store)) /\ OwnersDiffer
    BY <1>8, IdleOK DEF OwnersDiffer
  <1>10. apiFaults \in 0 .. MaxApiFaults
    BY ApiAssumption DEF ApiInit
  <1>11. DOMAIN answers = Requests /\ \A r \in Requests : answers[r] = {}
    BY DEF ApiInit
  <1>12. QED
    BY <1>7, <1>8, <1>9, <1>10, <1>11 DEF ApiInv, ApiInit

LEMMA UseCaseStep ==
    ASSUME ApiInv, NEW t \in Threads, UseCase(t)
    PROVE  ApiInv'
  BY CreateRunStep, ImportLookupStep, ImportFileStep, ImportRegisterStep,
     ImportRecordStep, BindReadStep, BindLookupStep, BindPublishStep, BindRunStep,
     BindRecordStep, ReviewReadStep, ReviewRecordStep, ReserveStep, CompleteKeyStep,
     MarkUnknownStep, PlanReadStep, PlanRegisterStep, SubmitStep, AdvanceReadStep,
     AdvanceWriteStep
  DEF UseCase

LEMMA ApiStep == ApiInv /\ [ApiNext]_apiVars => ApiInv'
  <1> SUFFICES ASSUME ApiInv, [ApiNext]_apiVars PROVE ApiInv'
    OBVIOUS
  <1>1. ASSUME NEW t \in Threads, NEW r \in Requests, Serve(t, r) PROVE ApiInv'
    BY <1>1, ServeStep
  <1>2. ASSUME NEW t \in Threads, UseCase(t) \/ Reply(t) \/ Die(t) PROVE ApiInv'
    BY <1>2, UseCaseStep, ReplyStep, DieStep
  <1>3. ASSUME NEW s \in {"SOURCE_DISCOVERY", "CANONICAL_HYPOTHESES"}, StageSucceeds(s)
        PROVE  ApiInv'
    BY <1>3, StageStep
  <1>4. CASE WorkerTouchesRun
    BY <1>4, WorkerStep
  <1>5. CASE UNCHANGED apiVars
    <2>1. store' = store /\ UNCHANGED <<sent, thread, answers, apiFaults>>
      BY <1>5, SameStore DEF apiVars
    <2>2. StoreOK(store) /\ StoreKept(store, store) /\ Discipline(store, store, IdleThread)
      BY KeptItself DEF ApiInv
    <2>3. QED
      BY <2>1, <2>2, EnvironmentStep
  <1>6. QED
    BY <1>1, <1>2, <1>3, <1>4, <1>5 DEF ApiNext

LEMMA ApiInvariant == ApiSpec => []ApiInv
  BY ApiInitially, ApiStep, PTL DEF ApiSpec

-----------------------------------------------------------------------------
(* What the API promises.                                                  *)

\* The types of the API's tables; a run has at most one binding.
THEOREM ApiTypes == ApiSpec => []ApiTypeOK
  <1>1. ApiInv => ApiTypeOK
    <2> SUFFICES ASSUME ApiInv PROVE ApiTypeOK
      OBVIOUS
    <2>1. IdemOK(store) /\ RootsOK(store) /\ PlansOK(store)
      BY DEF ApiInv, StoreOK
    <2>2. Cardinality(roots) <= 1
      <3>1. roots = {} \/ \E r \in Requests : roots = {SelectionId(r)}
        BY <2>1, Fields DEF RootsOK
      <3>2. CASE roots = {}
        BY <3>2, FS_EmptySet
      <3>3. ASSUME NEW r \in Requests, roots = {SelectionId(r)}
            PROVE  Cardinality(roots) <= 1
        <4>1. Cardinality({SelectionId(r)}) = 1
          BY FS_Singleton
        <4>2. QED
          BY <3>3, <4>1
      <3>4. QED
        BY <3>1, <3>2, <3>3
    <2>3. \A k \in Scopes : idem[k].state \in {"ABSENT", "RESERVED", "COMPLETED", "UNKNOWN"}
      BY <2>1, Fields DEF IdemOK
    <2>4. (plan = NoPlan \/ plan \in Plan) /\ truth \in Truth
      BY <2>1, Fields DEF PlansOK, PlanSound
    <2>5. QED
      BY <2>2, <2>3, <2>4 DEF ApiTypeOK, ApiInv
  <1>2. QED
    BY <1>1, ApiInvariant, PTL

\* A justified answer is true of the store.
LEMMA JustifiedHolds ==
    ASSUME ApiInv, NEW r \in Requests, NEW a, Justified(r, a, store)
    PROVE  Holds(r, a)
  <1>1. \A code, about : Answer(code, about).code = code /\ Answer(code, about).about = about
    BY DEF Answer
  <1>2. CASE r.kind \in Reviews
    <2>1. /\ a = Answer("REVIEW", <<r.body.expected + 1, r.body.decision>>)
          /\ r.body.expected + 1 \in 1 .. Len(history)
          /\ history[r.body.expected + 1] =
                [rev |-> r.body.expected + 1, by |-> Scope(r), decision |-> r.body.decision]
      BY <1>2, Fields DEF Justified, ReviewTold, ReviewEntry, Reviews, Binds, Executions
    <2>2. /\ a.code = "REVIEW" /\ a.about[1] = r.body.expected + 1
          /\ a.about[2] = r.body.decision
      BY <1>1, <2>1
    <2>3. a.about[1] <= Len(history)
      BY <2>1, <2>2
    <2>4. QED
      BY <2>1, <2>2, <2>3 DEF Holds
  <1>3. CASE r.kind = "prepare"
    <2>1. CASE a = Answer("READY", <<r.body.intent>>)
      <3>1. a.code = "READY" /\ a.about[1] = r.body.intent
        BY <1>1, <2>1
      <3>2. plan # NoPlan /\ plan.intent = r.body.intent
        BY <1>3, <2>1, Fields DEF Justified, Reviews, Binds, Executions, Answer
      <3>3. QED
        BY <3>1, <3>2 DEF Holds
    <2>2. CASE a = Answer("BLOCKED", <<"EXISTING_PLAN">>)
      <3>1. a.code = "BLOCKED" /\ a.about = <<"EXISTING_PLAN">>
        BY <1>1, <2>2
      <3>2. <<"EXISTING_PLAN">> \notin queue
        <4>1. ASSUME NEW q \in Requests PROVE <<"EXISTING_PLAN">> # CommandId(q)
          <5>1. Len(<<"EXISTING_PLAN">>) = 1 /\ Len(CommandId(q)) = 2
            BY DEF CommandId
          <5>2. QED
            BY <5>1
        <4>2. QED
          BY <4>1, Fields DEF ApiInv, StoreOK, QueueOK
      <3>3. QED
        BY <3>1, <3>2 DEF Holds
    <2>3. QED
      BY <1>3, <2>1, <2>2 DEF Justified, Reviews, Binds, Executions
  <1>4. CASE r.kind \notin Reviews \cup {"prepare"}
    BY <1>1, <1>4, Fields DEF Justified, Holds
  <1>5. QED
    BY <1>2, <1>3, <1>4

\* Every answer a client got, and every answer kept for a replay, is true of
\* the durable state from then on, for any number of threads, requests and
\* failures of the use cases of backend.py.
THEOREM Truthful == ApiSpec => []AnswersAreTrue
  <1>1. ApiInv => AnswersAreTrue
    <2> SUFFICES ASSUME ApiInv, NEW r \in Requests
                 PROVE  /\ \A a \in answers[r] : Holds(r, a)
                        /\ Replays(r) /\ Stored(r).answer # Nothing =>
                              Holds(r, Stored(r).answer)
      BY DEF AnswersAreTrue
    <2>1. \A a \in answers[r] : Holds(r, a)
      BY JustifiedHolds DEF ApiInv, AnswerOK
    <2>2. ASSUME Replays(r), Stored(r).answer # Nothing PROVE Holds(r, Stored(r).answer)
      <3>1. /\ Under(r, store) = Stored(r) /\ Stored(r).state # "ABSENT"
            /\ Stored(r).fp = r.body /\ RecordOK(r, store)
        BY <2>2, Fields DEF Replays, Fresh, Stored, Under, ApiInv, StoreOK
      <3>2. CASE Justified(r, Stored(r).answer, store)
        BY <3>2, JustifiedHolds
      <3>3. CASE Stored(r).answer = Unknown(r)
        <4>1. Unknown(r).code = "DELIVERY_UNKNOWN"
          BY DEF Unknown, Answer
        <4>2. QED
          BY <3>3, <4>1 DEF Holds
      <3>4. QED
        BY <2>2, <3>1, <3>2, <3>3 DEF RecordOK
    <2>3. QED
      BY <2>1, <2>2
  <1>2. QED
    BY <1>1, ApiInvariant, PTL

\* The store leaves one outcome for a request.
LEMMA OneAnswer ==
    ASSUME NEW S, NEW r \in Requests, NEW a, NEW b, AnswerOK(r, a, S), AnswerOK(r, b, S)
    PROVE  a = b
  <1>1. CASE r.kind \in Reserving
    <2>1. Record("COMPLETED", r, a) = Record("COMPLETED", r, b)
      BY <1>1 DEF AnswerOK
    <2>2. /\ Record("COMPLETED", r, a).answer = a
          /\ Record("COMPLETED", r, b).answer = b
      BY DEF Record
    <2>3. QED
      BY <2>1, <2>2
  <1>2. CASE r.kind \notin Reserving
    BY <1>2 DEF AnswerOK, Justified, Reserving, Reviews, Binds, Executions
  <1>3. QED
    BY <1>1, <1>2

\* However often a request is sent, by however many threads it is served and
\* whichever of them die, its clients are told one outcome.
THEOREM Outcome == ApiSpec => []OneOutcome
  <1>1. ApiInv => OneOutcome
    <2> SUFFICES ASSUME ApiInv, NEW r \in Requests
                 PROVE  Cardinality({a \in answers[r] : a.code \in Definite}) <= 1
      BY DEF OneOutcome
    <2> DEFINE told == {a \in answers[r] : a.code \in Definite}
    <2>1. \A a, b \in told : a = b
      BY OneAnswer DEF ApiInv
    <2> HIDE DEF told
    <2>2. CASE told = {}
      BY <2>2, FS_EmptySet DEF told
    <2>3. CASE told # {}
      <3>1. PICK a : a \in told
        BY <2>3
      <3>2. told = {a}
        BY <2>1, <3>1
      <3>3. Cardinality({a}) = 1
        BY FS_Singleton
      <3>4. QED
        BY <3>2, <3>3 DEF told
    <2>4. QED
      BY <2>2, <2>3
  <1>2. QED
    BY <1>1, ApiInvariant, PTL

\* One key has one effect: one run, one command, one entry of the review
\* history; and the history has the revisions 1, 2, ... without gap.
THEOREM Effects == ApiSpec => []OneEffectPerKey
  <1>1. ApiInv => OneEffectPerKey
    <2> SUFFICES ASSUME ApiInv PROVE OneEffectPerKey
      OBVIOUS
    <2>1. HistoryOK(store) /\ RunsOK(store) /\ QueueOK(store)
      BY DEF ApiInv, StoreOK
    <2>2. DOMAIN history = 1 .. Len(history)
      BY <2>1, Fields DEF HistoryOK
    <2>3. /\ \A i, j \in DOMAIN history : history[i].by = history[j].by => i = j
          /\ \A i \in DOMAIN history : history[i].rev = i
          /\ review.rev = Len(history)
      BY <2>1, <2>2, Fields DEF HistoryOK
    <2>4. ASSUME NEW a \in runs, NEW b \in runs, a[1] = b[1], a[2] = b[2] PROVE a = b
      <3>1. PICK r \in Requests : r.kind = "create" /\ a = ResourceId(r)
                                  /\ Under(r, store).fp = r.body
        BY <2>1, <2>4, Fields DEF RunsOK
      <3>2. PICK q \in Requests : q.kind = "create" /\ b = ResourceId(q)
                                  /\ Under(q, store).fp = q.body
        BY <2>1, <2>4, Fields DEF RunsOK
      <3>3. r.who = q.who /\ r.key = q.key
        BY <2>4, <3>1, <3>2 DEF ResourceId
      <3>4. Scope(r) = Scope(q)
        BY <3>1, <3>2, <3>3 DEF Scope
      <3>5. r.body = q.body
        BY <3>1, <3>2, <3>4 DEF Under
      <3>6. QED
        BY <3>1, <3>2, <3>3, <3>5 DEF ResourceId
    <2>5. ASSUME NEW a \in queue, NEW b \in queue, a[1] = b[1] PROVE a = b
      <3>1. PICK r \in Requests : a = CommandId(r) /\ Under(r, store).fp = r.body
        BY <2>1, <2>5, Fields DEF QueueOK
      <3>2. PICK q \in Requests : b = CommandId(q) /\ Under(q, store).fp = q.body
        BY <2>1, <2>5, Fields DEF QueueOK
      <3>3. Scope(r) = Scope(q)
        BY <2>5, <3>1, <3>2 DEF CommandId
      <3>4. r.body = q.body
        BY <3>1, <3>2, <3>3 DEF Under
      <3>5. QED
        BY <3>1, <3>2, <3>3, <3>4 DEF CommandId
    <2>6. QED
      BY <2>3, <2>4, <2>5 DEF OneEffectPerKey
  <1>2. QED
    BY <1>1, ApiInvariant, PTL

-----------------------------------------------------------------------------
(* What no step does.                                                      *)

\* The steps that leave the binding and the plan alone.
LEMMA OthersKeep ==
    ASSUME [ApiNext]_apiVars
    PROVE  \/ UNCHANGED <<roots, plan, scheduled>>
           \/ \E t \in Threads : BindRun(t) \/ PlanRegister(t) \/ AdvanceWrite(t)
  <1>1. ASSUME NEW t \in Threads, NEW r, Serve(t, r)
        PROVE  UNCHANGED <<roots, plan, scheduled>>
    BY <1>1 DEF Serve, storeVars
  <1>2. ASSUME NEW t \in Threads,
               \/ CreateRun(t) \/ ImportFile(t) \/ ImportRegister(t) \/ ImportRecord(t)
               \/ BindPublish(t) \/ BindRecord(t) \/ ReviewRecord(t) \/ ReserveKey(t)
               \/ CompleteKey(t) \/ MarkUnknown(t) \/ Submit(t)
        PROVE  UNCHANGED <<roots, plan, scheduled>>
    BY <1>2 DEF CreateRun, ImportFile, ImportRegister, ImportRecord, BindPublish,
                BindRecord, ReviewRecord, ReserveKey, CompleteKey, MarkUnknown, Submit
  <1>3. ASSUME NEW t \in Threads,
               \/ ImportLookup(t) \/ BindRead(t) \/ BindLookup(t) \/ ReviewRead(t)
               \/ PlanRead(t) \/ AdvanceRead(t) \/ Reply(t) \/ Die(t)
        PROVE  UNCHANGED <<roots, plan, scheduled>>
    BY <1>3 DEF ImportLookup, BindRead, BindLookup, ReviewRead, PlanRead, AdvanceRead,
                Reply, Die, storeVars
  <1>4. ASSUME NEW s, StageSucceeds(s) PROVE UNCHANGED <<roots, plan, scheduled>>
    BY <1>4 DEF StageSucceeds
  <1>5. WorkerTouchesRun => UNCHANGED <<roots, plan, scheduled>>
    BY DEF WorkerTouchesRun
  <1>6. UNCHANGED apiVars => UNCHANGED <<roots, plan, scheduled>>
    BY DEF apiVars, storeVars
  <1>7. QED
    BY <1>1, <1>2, <1>3, <1>4, <1>5, <1>6 DEF ApiNext, UseCase

\* A source binding of a run is never replaced: not by a race of a single
\* source with a source set, nor by a stale copy of the run row.
THEOREM BindingFinal == ApiSpec => BindingIsFinal
  <1>1. ApiInv /\ [ApiNext]_apiVars => [roots # {} => roots' = roots]_apiVars
    <2> SUFFICES ASSUME ApiInv, [ApiNext]_apiVars, roots # {} PROVE roots' = roots
      OBVIOUS
    <2>1. ASSUME NEW t \in Threads, BindRun(t) PROVE roots' = roots
      <3>1. CopyOK(thread[t], store) /\ thread[t].pc = "bind_run"
        BY <2>1, ThreadFacts DEF ThreadOK, BindRun, ThreadAt
      <3>2. /\ thread[t].rev = runRev => roots = thread[t].roots
            /\ thread[t].roots = {} \/ SelectionId(thread[t].req) \in thread[t].roots
        BY <3>1, Fields DEF CopyOK
      <3>3. QED
        BY <2>1, <3>2 DEF BindRun, UpdateRun, Req
    <2>2. ASSUME NEW t \in Threads, PlanRegister(t) \/ AdvanceWrite(t) PROVE roots' = roots
      BY <2>2 DEF PlanRegister, AdvanceWrite
    <2>3. QED
      BY <2>1, <2>2, OthersKeep
  <1>2. QED
    BY <1>1, ApiInvariant, PTL DEF ApiSpec, BindingIsFinal

\* A stored plan keeps its intent and its decisions, its phase never goes
\* back, its revision grows with every change, and what workers scheduled
\* from it stays selected, whoever advances it and with however old a copy.
THEOREM PlanForward == ApiSpec => PlanMovesForward
  <1> DEFINE Moves ==
        plan # NoPlan =>
           /\ plan' # NoPlan
           /\ plan'.intent = plan.intent
           /\ PhaseRank[plan'.phase] >= PhaseRank[plan.phase]
           /\ plan' # plan => plan'.rev > plan.rev
           /\ plan.matching # "pending" => plan'.matching = plan.matching
           /\ plan.er # "pending" => plan'.er = plan.er
           /\ scheduled' \subseteq Selected(plan')
  <1>1. ApiInv /\ [ApiNext]_apiVars => [Moves]_apiVars
    <2> SUFFICES ASSUME ApiInv, [ApiNext]_apiVars, plan # NoPlan
                 PROVE  /\ plan' # NoPlan /\ Forward(plan, plan')
                        /\ scheduled' \subseteq Selected(plan')
      BY DEF Forward
    <2>1. PlanSound(plan, truth) /\ scheduled \subseteq Selected(plan)
      BY Fields DEF ApiInv, StoreOK, PlansOK
    <2>2. PhaseRank[plan.phase] \in 0 .. 2
      BY <2>1, PhaseRanks DEF PlanSound, Plan, Phase
    <2>3. CASE UNCHANGED <<plan, scheduled>>
      BY <2>1, <2>2, <2>3 DEF Forward
    <2>4. ASSUME NEW t \in Threads, AdvanceWrite(t)
          PROVE  /\ plan' # NoPlan /\ Forward(plan, plan')
                 /\ scheduled' \subseteq Selected(plan')
      BY <2>4, AdvanceEffect, ApiAssumption DEF PlanSound
    <2>5. ASSUME NEW t \in Threads, BindRun(t) \/ PlanRegister(t)
          PROVE  UNCHANGED <<plan, scheduled>>
      BY <2>5 DEF BindRun, PlanRegister, RegisterPlan
    <2>6. QED
      BY <2>3, <2>4, <2>5, OthersKeep
  <1>2. QED
    BY <1>1, ApiInvariant, PTL DEF ApiSpec, PlanMovesForward

==============================================================================
