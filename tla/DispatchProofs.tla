--------------------------- MODULE DispatchProofs ---------------------------
(***************************************************************************)
(* Dispatch's type invariant, ExactlyOnce and LoopFresh, for any number of *)
(* cores, handlers, queue slots and firings.                               *)
(***************************************************************************)
EXTENDS Dispatch, SequenceTheorems, TLAPS

----------------------------------------------------------------------------
(* What a thread's history looks like, as a predicate on plain values: s   *)
(* what it has seen, l what it lost, of the firings after b up to f.       *)
Once(t, s, l, b, f) ==
  /\ \A j, k \in 1 .. Len(s) : j < k => s[j] < s[k]
  /\ {s[k] : k \in 1 .. Len(s)} \cup l = Accepts[t] \cap (b + 1 .. f)
  /\ {s[k] : k \in 1 .. Len(s)} \cap l = {}
  /\ l # {} => Len(s) >= QUEUE_SIZE

(* A handler's history starts empty. *)
LEMMA OnceFresh == ASSUME NEW t, NEW f \in Nat PROVE Once(t, <<>>, {}, f, f)
<1>1. f + 1 .. f = {}
  OBVIOUS
<1>2. Len(<<>>) = 0 /\ 1 .. 0 = {}
  OBVIOUS
<1> QED
  BY <1>1, <1>2 DEF Once

(* An event the thread's condition turns down. *)
LEMMA OnceSkipped ==
  ASSUME NEW t, NEW s \in Seq(Nat), NEW l, NEW b \in Nat, NEW f \in Nat,
         Once(t, s, l, b, f), b <= f, f + 1 \notin Accepts[t]
  PROVE  Once(t, s, l, b, f + 1)
<1>1. Accepts[t] \cap (b + 1 .. f + 1) = Accepts[t] \cap (b + 1 .. f)
  OBVIOUS
<1> QED
  BY <1>1 DEF Once

(* An event its full queue refuses. *)
LEMMA OnceRefused ==
  ASSUME NEW t, NEW s \in Seq(Nat), NEW l, NEW b \in Nat, NEW f \in Nat,
         Once(t, s, l, b, f), b <= f, f + 1 \in Accepts[t], Len(s) >= QUEUE_SIZE
  PROVE  Once(t, s, l \cup {f + 1}, b, f + 1)
<1>1. Accepts[t] \cap (b + 1 .. f + 1) = (Accepts[t] \cap (b + 1 .. f)) \cup {f + 1}
  OBVIOUS
<1>2. f + 1 \notin Accepts[t] \cap (b + 1 .. f)
  OBVIOUS
<1> QED
  BY <1>1, <1>2 DEF Once

(* An event that is posted. *)
LEMMA OncePosted ==
  ASSUME NEW t, NEW s \in Seq(Nat), NEW l, NEW b \in Nat, NEW f \in Nat,
         Once(t, s, l, b, f), b <= f, f + 1 \in Accepts[t]
  PROVE  Once(t, Append(s, f + 1), l, b, f + 1)
<1> DEFINE S == Append(s, f + 1)
           R == {s[k] : k \in 1 .. Len(s)}
<1>1. /\ S \in Seq(Nat) /\ Len(S) = Len(s) + 1 /\ Len(s) \in Nat /\ S[Len(s) + 1] = f + 1
      /\ \A k \in 1 .. Len(s) : S[k] = s[k]
  OBVIOUS
<1> HIDE DEF S
<1>2. Accepts[t] \cap (b + 1 .. f + 1) = (Accepts[t] \cap (b + 1 .. f)) \cup {f + 1}
  OBVIOUS
<1>3. f + 1 \notin Accepts[t] \cap (b + 1 .. f)
  OBVIOUS
<1>4. {S[k] : k \in 1 .. Len(S)} = R \cup {f + 1}
  <2>1. \A k \in 1 .. Len(S) : k \in 1 .. Len(s) \/ k = Len(s) + 1
    BY <1>1
  <2>2. \A k \in 1 .. Len(s) : k \in 1 .. Len(S)
    BY <1>1
  <2>3. Len(s) + 1 \in 1 .. Len(S)
    BY <1>1
  <2>4. \A x : x \in {S[k] : k \in 1 .. Len(S)} <=> \E k \in 1 .. Len(S) : x = S[k]
    OBVIOUS
  <2>5. \A x : x \in R <=> \E k \in 1 .. Len(s) : x = s[k]
    OBVIOUS
  <2> HIDE DEF R
  <2> QED
    BY <1>1, <2>1, <2>2, <2>3, <2>4, <2>5
<1>5. \A k \in 1 .. Len(s) : s[k] \in Nat /\ s[k] < f + 1
  <2> TAKE k \in 1 .. Len(s)
  <2>1. s[k] \in R
    OBVIOUS
  <2>2. R \subseteq b + 1 .. f
    BY DEF Once
  <2>3. s[k] \in b + 1 .. f
    BY <2>1, <2>2
  <2> QED
    BY <2>3
<1>6. \A j, k \in 1 .. Len(S) : j < k => S[j] < S[k]
  <2> SUFFICES ASSUME NEW j \in 1 .. Len(S), NEW k \in 1 .. Len(S), j < k PROVE S[j] < S[k]
    OBVIOUS
  <2>1. j \in 1 .. Len(s) /\ S[j] = s[j]
    BY <1>1
  <2>2. CASE k \in 1 .. Len(s)
    BY <1>1, <2>1, <2>2 DEF Once
  <2>3. CASE k = Len(s) + 1
    BY <1>1, <1>5, <2>1, <2>3
  <2> QED
    BY <1>1, <2>2, <2>3
<1>7. R \cup l = Accepts[t] \cap (b + 1 .. f) /\ R \cap l = {}
  BY DEF Once
<1>8. {S[k] : k \in 1 .. Len(S)} \cup l = Accepts[t] \cap (b + 1 .. f + 1)
  BY <1>2, <1>4, <1>7
<1>9. {S[k] : k \in 1 .. Len(S)} \cap l = {}
  BY <1>3, <1>4, <1>7
<1>10. l # {} => Len(S) >= QUEUE_SIZE
  BY <1>1, DispatchAssumption DEF Once
<1> QED
  BY <1>6, <1>8, <1>9, <1>10 DEF Once, S

(* Taking the first waiting event does not change what has been seen. *)
LEMMA TakeFirst ==
  ASSUME NEW s \in Seq(Nat), NEW q \in Seq(Nat), q # <<>>
  PROVE  /\ Append(s, Head(q)) \in Seq(Nat) /\ Tail(q) \in Seq(Nat)
         /\ Len(Tail(q)) = Len(q) - 1
         /\ Append(s, Head(q)) \o Tail(q) = s \o q
<1> DEFINE h == Head(q)
           r == Tail(q)
<1>1. /\ h \in Nat /\ h = q[1] /\ r \in Seq(Nat) /\ <<h>> \in Seq(Nat)
      /\ Len(r) = Len(q) - 1 /\ Len(q) \in Nat \ {0} /\ Len(<<h>>) = 1 /\ <<h>>[1] = h
      /\ \A k \in 1 .. Len(r) : r[k] = q[k + 1]
  OBVIOUS
<1> HIDE DEF h, r
<1>2. Append(s, h) = s \o <<h>> /\ Append(s, h) \in Seq(Nat)
  BY <1>1, AppendIsConcat, AppendProperties
<1>3. (s \o <<h>>) \o r = s \o (<<h>> \o r)
  BY <1>1, ConcatAssociative
<1>4. /\ <<h>> \o r \in Seq(Nat) /\ Len(<<h>> \o r) = Len(q)
      /\ \A k \in 1 .. Len(q) : (<<h>> \o r)[k] = IF k <= 1 THEN <<h>>[k] ELSE r[k - 1]
  BY <1>1, ConcatProperties
<1>5. \A k \in 1 .. Len(q) : (<<h>> \o r)[k] = q[k]
  <2> TAKE k \in 1 .. Len(q)
  <2>1. CASE k = 1
    BY <1>1, <1>4, <2>1
  <2>2. CASE k > 1
    <3>1. k - 1 \in 1 .. Len(r) /\ (k - 1) + 1 = k
      BY <1>1, <2>2
    <3>2. (<<h>> \o r)[k] = r[k - 1]
      BY <1>4, <2>2
    <3> QED
      BY <1>1, <3>1, <3>2
  <2> QED
    BY <1>1, <2>1, <2>2
<1>6. <<h>> \o r = q
  BY <1>4, <1>5, SeqEqual
<1> QED
  BY <1>1, <1>2, <1>3, <1>6 DEF h, r

(* Posting appends to what has been seen. *)
LEMMA PostLast ==
  ASSUME NEW s \in Seq(Nat), NEW q \in Seq(Nat), NEW n \in Nat
  PROVE  s \o Append(q, n) = Append(s \o q, n)
<1>1. s \o q \in Seq(Nat) /\ <<n>> \in Seq(Nat)
  OBVIOUS
<1>2. Append(q, n) = q \o <<n>> /\ Append(s \o q, n) = (s \o q) \o <<n>>
  BY <1>1, AppendIsConcat
<1> QED
  BY <1>1, <1>2, ConcatAssociative

----------------------------------------------------------------------------
(* The inductive invariant. *)
DInv ==
  /\ DispatchTypeOK
  /\ \A c \in CoreIndex : base[c] <= fired[c]
  /\ ExactlyOnce
  /\ LoopFresh

Timers == {t \in Threads : Kind[t[1]] = "timer"}

(* The fields of a thread.                                                 *)
LEMMA ThreadParts ==
  \A t \in Threads : /\ t[1] \in CoreIndex /\ t[2] \in 1 .. Size[t[1]] /\ t = <<t[1], t[2]>>
                     /\ Size[t[1]] \in Nat /\ t[2] \in Nat /\ t[2] <= Size[t[1]]
<1>1. \A t \in Threads : \E c \in CoreIndex : \E i \in 1 .. Size[c] : t = <<c, i>>
  BY DEF Threads
<1>2. \A c \in CoreIndex : Size[c] \in Nat
  BY DispatchAssumption
<1> QED
  BY <1>1, <1>2

(* The place the loop is at is a thread of a core.                         *)
LEMMA HereIsThread ==
  ASSUME DispatchTypeOK, thread_i # 0
  PROVE  Here \in Threads /\ Here[1] = core_i /\ Here[2] = thread_i
<1>1. core_i \in CoreIndex /\ thread_i \in 1 .. Size[core_i]
  BY DispatchAssumption DEF DispatchTypeOK
<1> QED
  BY <1>1 DEF Threads, Here

(* ExactlyOnce, thread by thread. *)
LEMMA OnceIs ==
  ExactlyOnce <=> \A t \in Timers : Once(t, Seen(t), lost[t], base[t[1]], fired[t[1]])
BY DEF ExactlyOnce, Once, Timers, Delivered, Concern

(* ExactlyOnce in the next state, thread by thread.                        *)
LEMMA OnceIsNext ==
  ExactlyOnce' <=> \A t \in Timers : Once(t, Seen(t)', lost'[t], base'[t[1]], fired'[t[1]])
BY DEF ExactlyOnce, Once, Timers, Delivered, Concern

(* The turn moves on by one thread, or to the next core. *)
LEMMA AdvanceFits ==
  ASSUME DispatchTypeOK, Advance
  PROVE  /\ core_i' \in CoreIndex /\ thread_i' \in 0 .. Size[core_i']
         /\ thread_i = 0 => core_i' = core_i /\ thread_i' = 1
         /\ \A t \in Threads :
              core_i = t[1] /\ thread_i \in 1 .. t[2] /\ t # Here =>
                core_i' = t[1] /\ thread_i' \in 1 .. t[2]
<1>1. /\ core_i \in 1 .. NumCores /\ NumCores \in Nat \ {0}
      /\ thread_i \in Nat /\ thread_i <= Size[core_i]
      /\ \A c \in CoreIndex : Size[c] \in Nat \ {0}
  BY DispatchAssumption DEF DispatchTypeOK, CoreIndex
<1>2. (core_i % NumCores) + 1 \in CoreIndex
  BY <1>1 DEF CoreIndex
<1>3. core_i' \in CoreIndex /\ thread_i' \in 0 .. Size[core_i']
  <2>1. CASE thread_i < Size[core_i]
    BY <1>1, <2>1 DEF Advance, CoreIndex
  <2>2. CASE ~(thread_i < Size[core_i])
    BY <1>1, <1>2, <2>2 DEF Advance
  <2> QED
    BY <2>1, <2>2
<1>4. thread_i = 0 => core_i' = core_i /\ thread_i' = 1
  BY <1>1 DEF Advance, CoreIndex
<1>5. ASSUME NEW t \in Threads, core_i = t[1], thread_i \in 1 .. t[2], t # Here
      PROVE  core_i' = t[1] /\ thread_i' \in 1 .. t[2]
  <2>1. t = <<core_i, t[2]>> /\ t[2] \in Nat /\ t[2] <= Size[core_i]
    BY <1>5, ThreadParts
  <2>2. t[2] # thread_i
    BY <1>5, <2>1 DEF Here
  <2>3. thread_i < t[2]
    BY <1>5, <2>1, <2>2
  <2>4. thread_i < Size[core_i]
    <3>1. Size[core_i] \in Nat
      BY <1>1 DEF CoreIndex
    <3> QED
      BY <1>1, <2>1, <2>3, <3>1
  <2> QED
    BY <1>1, <1>5, <2>1, <2>3, <2>4 DEF Advance
<1> QED
  BY <1>3, <1>4, <1>5

(* Turns that post and take nothing. *)
LEMMA QuietStep ==
  ASSUME DInv, Advance, UNCHANGED <<queue, fired, base, started, lost>>,
         thread_i = 0 \/ flag[Here] = 1 \/ queue[Here] = <<>>,
         flag' \in [Threads -> {0, 1}], left' \in [Threads -> Nat \cup {Endless}],
         \A t \in Threads : flag'[t] = flag[t] \/ flag'[t] = 0
  PROVE  DInv'
<1> USE DEF DInv
<1>1. DispatchTypeOK'
  BY AdvanceFits DEF DispatchTypeOK
<1>2. \A c \in CoreIndex : base'[c] <= fired'[c]
  OBVIOUS
<1>3. \A t \in Threads : Seen(t)' = Seen(t)
  BY DEF Seen
<1>4. ExactlyOnce'
  BY <1>3, OnceIs, OnceIsNext DEF Timers
<1>5. LoopFresh'
  <2>0. \A t \in Threads : Kind[t[1]] = "loop" => lost[t] = {}
    BY DEF LoopFresh
  <2> SUFFICES ASSUME NEW t \in Threads, Kind[t[1]] = "loop", queue[t] # <<>>
               PROVE  /\ core_i' = t[1] /\ thread_i' \in 1 .. t[2]
                      /\ flag'[t] = 0 /\ queue[t] = <<1>>
    BY <2>0 DEF LoopFresh
  <2>1. /\ core_i = t[1] /\ thread_i \in 1 .. t[2] /\ flag[t] = 0 /\ queue[t] = <<1>>
    BY DEF LoopFresh
  <2>2. thread_i # 0
    BY <2>1, ThreadParts
  <2>3. t # Here
    <3>1. flag[t] # 1 /\ queue[t] # <<>>
      BY <2>1
    <3>2. flag[Here] = 1 \/ queue[Here] = <<>>
      BY <2>2
    <3> QED
      BY <3>1, <3>2, Zenon
  <2> QED
    BY <2>1, <2>3, AdvanceFits
<1> QED
  BY <1>1, <1>2, <1>4, <1>5

(* Steps in which nothing fires preserve the invariant.                    *)
LEMMA QuietSteps == DInv /\ (NothingFired \/ Yield \/ EndOfEvent \/ Idle) => DInv'
<1> SUFFICES ASSUME DInv, NothingFired \/ Yield \/ EndOfEvent \/ Idle PROVE DInv'
  OBVIOUS
<1>1. /\ flag \in [Threads -> {0, 1}] /\ left \in [Threads -> Nat \cup {Endless}]
      /\ thread_i # 0 => Here \in Threads
  BY HereIsThread DEF DInv, DispatchTypeOK
<1>2. CASE NothingFired \/ Idle
  BY <1>1, <1>2, QuietStep DEF NothingFired, Idle
<1>3. CASE Yield
  <2>1. left' \in [Threads -> Nat \cup {Endless}]
    <3>1. left[Here] \in Nat \cup {Endless} /\ left[Here] # 0
      BY <1>1, <1>3 DEF Yield
    <3>2. (IF left[Here] = Endless THEN left[Here] ELSE left[Here] - 1) \in Nat \cup {Endless}
      BY <3>1
    <3> QED
      BY <1>1, <1>3, <3>2 DEF Yield
  <2> QED
    BY <1>1, <1>3, <2>1, QuietStep DEF Yield
<1>4. CASE EndOfEvent
  BY <1>1, <1>4, QuietStep DEF EndOfEvent
<1> QED
  BY <1>2, <1>3, <1>4

(* A datum goes to some threads' queues. *)
LEMMA enqueueIs ==
  ASSUME DispatchTypeOK, NEW n \in Nat, NEW T, enqueue(n, T)
  PROVE  /\ queue' \in [Threads -> Seq(Nat)] /\ \A t \in Threads : Len(queue'[t]) <= QUEUE_SIZE
         /\ lost' \in [Threads -> SUBSET Nat]
         /\ \A t \in Threads :
              \/ t \in T /\ Len(queue[t]) < QUEUE_SIZE /\ queue'[t] = Append(queue[t], n)
                 /\ lost'[t] = lost[t]
              \/ t \in T /\ Len(queue[t]) >= QUEUE_SIZE /\ queue'[t] = queue[t]
                 /\ lost'[t] = lost[t] \cup {n}
              \/ t \notin T /\ queue'[t] = queue[t] /\ lost'[t] = lost[t]
<1>1. \A t \in Threads : /\ queue[t] \in Seq(Nat) /\ Len(queue[t]) \in Nat
                         /\ Len(queue[t]) <= QUEUE_SIZE /\ lost[t] \in SUBSET Nat
                         /\ Append(queue[t], n) \in Seq(Nat)
                         /\ Len(Append(queue[t], n)) = Len(queue[t]) + 1
  BY DEF DispatchTypeOK
<1>2. QUEUE_SIZE \in Nat
  BY DispatchAssumption
<1>3. \A t \in Threads :
        \/ t \in T /\ Len(queue[t]) < QUEUE_SIZE /\ queue'[t] = Append(queue[t], n)
           /\ lost'[t] = lost[t]
        \/ t \in T /\ Len(queue[t]) >= QUEUE_SIZE /\ queue'[t] = queue[t]
           /\ lost'[t] = lost[t] \cup {n}
        \/ t \notin T /\ queue'[t] = queue[t] /\ lost'[t] = lost[t]
  BY <1>1, <1>2 DEF enqueue
<1>4. \A t \in Threads : queue'[t] \in Seq(Nat) /\ Len(queue'[t]) <= QUEUE_SIZE
  <2> TAKE t \in Threads
  <2>1. CASE queue'[t] = queue[t]
    BY <1>1, <2>1
  <2>2. CASE queue'[t] = Append(queue[t], n) /\ Len(queue[t]) < QUEUE_SIZE
    BY <1>1, <1>2, <2>2
  <2> QED
    BY <1>3, <2>1, <2>2
<1>5. \A t \in Threads : lost'[t] \in SUBSET Nat
  BY <1>1, <1>3
<1>6. queue' \in [Threads -> Seq(Nat)] /\ lost' \in [Threads -> SUBSET Nat]
  <2>1. queue' = [t \in Threads |-> queue'[t]] /\ lost' = [t \in Threads |-> lost'[t]]
    BY DEF enqueue
  <2> QED
    BY <1>4, <1>5, <2>1
<1> QED
  BY <1>3, <1>4, <1>6

(* An event that fires is queued or lost, once for each thread that        *)
(* accepts it.                                                             *)
LEMMA FireStep == DInv /\ Fire => DInv'
<1> SUFFICES ASSUME DInv, Fire PROVE DInv'
  OBVIOUS
<1> USE DEF DInv
<1>1. PICK n : n = fired[core_i] + 1
  OBVIOUS
<1>2. PICK T : T = {t \in Threads : t[1] = core_i /\ n \in Accepts[t]}
  OBVIOUS
<1>3. core_i \in CoreIndex /\ n \in Nat /\ n \in 0 .. MaxFires /\ fired[core_i] \in Nat
  BY <1>1, DispatchAssumption DEF Fire, DispatchTypeOK
<1>4. /\ fired' = [fired EXCEPT ![core_i] = n] /\ fired'[core_i] = n
      /\ fired' \in [CoreIndex -> 0 .. MaxFires]
      /\ \A c \in CoreIndex : c # core_i => fired'[c] = fired[c]
  BY <1>1, <1>3 DEF Fire, DispatchTypeOK
<1>5. enqueue(n, T)
  BY <1>2, <1>4 DEF Fire
<1>6. /\ thread_i = 0 /\ Kind[core_i] = "timer" /\ Advance
      /\ UNCHANGED <<flag, left, base, started>>
  BY DEF Fire
<1>7. DispatchTypeOK'
  BY <1>3, <1>4, <1>5, <1>6, enqueueIs, AdvanceFits DEF DispatchTypeOK
<1>8. \A c \in CoreIndex : base'[c] <= fired'[c]
  <2>1. \A c \in CoreIndex : base[c] \in Nat /\ fired[c] \in Nat
    BY DispatchAssumption DEF DispatchTypeOK
  <2> QED
    BY <1>1, <1>4, <1>6, <2>1
<1>9. ExactlyOnce'
  <2> SUFFICES ASSUME NEW t \in Timers
               PROVE  Once(t, Seen(t)', lost'[t], base'[t[1]], fired'[t[1]])
    BY OnceIsNext
  <2>1. /\ t \in Threads /\ t[1] \in CoreIndex /\ base[t[1]] \in Nat /\ fired[t[1]] \in Nat
        /\ base[t[1]] <= fired[t[1]] /\ base' = base
        /\ started[t] \in Seq(Nat) /\ queue[t] \in Seq(Nat) /\ Seen(t) \in Seq(Nat)
        /\ Len(Seen(t)) = Len(started[t]) + Len(queue[t])
        /\ Len(queue[t]) \in Nat /\ Len(started[t]) \in Nat
    BY <1>6, ThreadParts, DispatchAssumption DEF Timers, DispatchTypeOK, Seen
  <2>2. Once(t, Seen(t), lost[t], base[t[1]], fired[t[1]])
    BY OnceIs
  <2>3. Seen(t)' = started[t] \o queue'[t]
    BY <1>6 DEF Seen
  <2>4. CASE t[1] # core_i
    <3>1. t \notin T
      BY <1>2, <2>4
    <3>2. queue'[t] = queue[t] /\ lost'[t] = lost[t]
      BY <1>3, <1>5, <2>1, <3>1, enqueueIs
    <3>3. fired'[t[1]] = fired[t[1]] /\ Seen(t)' = Seen(t)
      BY <1>4, <2>1, <2>3, <2>4, <3>2 DEF Seen
    <3> QED
      BY <2>1, <2>2, <3>2, <3>3
  <2>5. CASE t[1] = core_i
    <3>1. fired'[t[1]] = fired[t[1]] + 1 /\ n = fired[t[1]] + 1
      BY <1>1, <1>4, <2>5
    <3>2. CASE n \notin Accepts[t]
      <4>1. queue'[t] = queue[t] /\ lost'[t] = lost[t]
        BY <1>2, <1>3, <1>5, <2>1, <3>2, enqueueIs
      <4>2. Seen(t)' = Seen(t)
        BY <2>3, <4>1 DEF Seen
      <4> QED
        BY <2>1, <2>2, <3>1, <3>2, <4>1, <4>2, OnceSkipped
    <3>3. CASE n \in Accepts[t] /\ Len(queue[t]) < QUEUE_SIZE
      <4>1. queue'[t] = Append(queue[t], n) /\ lost'[t] = lost[t]
        BY <1>2, <1>3, <1>5, <2>1, <2>5, <3>3, DispatchAssumption, enqueueIs
      <4>2. Seen(t)' = Append(Seen(t), n)
        <5>1. started[t] \o Append(queue[t], n) = Append(started[t] \o queue[t], n)
          BY <1>3, <2>1, PostLast
        <5>2. Seen(t)' = started[t] \o Append(queue[t], n)
          BY <2>3, <4>1
        <5> QED
          BY <5>1, <5>2 DEF Seen
      <4>3. Once(t, Append(Seen(t), fired[t[1]] + 1), lost[t], base[t[1]], fired[t[1]] + 1)
        BY <2>1, <2>2, <3>1, <3>3, OncePosted
      <4> QED
        BY <2>1, <3>1, <4>1, <4>2, <4>3
    <3>4. CASE n \in Accepts[t] /\ Len(queue[t]) >= QUEUE_SIZE
      <4>1. queue'[t] = queue[t] /\ lost'[t] = lost[t] \cup {n}
        BY <1>2, <1>3, <1>5, <2>1, <2>5, <3>4, DispatchAssumption, enqueueIs
      <4>2. Seen(t)' = Seen(t)
        BY <2>3, <4>1 DEF Seen
      <4>3. Len(Seen(t)) >= QUEUE_SIZE
        <5>1. QUEUE_SIZE \in Nat
          BY DispatchAssumption
        <5>2. PICK m \in Nat, k \in Nat :
                Len(started[t]) = m /\ Len(queue[t]) = k /\ Len(Seen(t)) = m + k
          BY <2>1
        <5> QED
          BY <3>4, <5>1, <5>2
      <4>4. Once(t, Seen(t), lost[t] \cup {fired[t[1]] + 1}, base[t[1]], fired[t[1]] + 1)
        BY <2>1, <2>2, <3>1, <3>4, <4>3, OnceRefused
      <4> QED
        BY <2>1, <3>1, <4>1, <4>2, <4>4
    <3> QED
      BY <2>1, <3>2, <3>3, <3>4, DispatchAssumption
  <2> QED
    BY <2>4, <2>5
<1>10. LoopFresh'
  <2> SUFFICES ASSUME NEW t \in Threads, Kind[t[1]] = "loop"
               PROVE  queue'[t] = <<>> /\ lost'[t] = {}
    BY DEF LoopFresh
  <2>1. queue[t] = <<>> /\ lost[t] = {}
    BY <1>6, ThreadParts DEF LoopFresh
  <2>2. t \notin T
    BY <1>2, <1>6
  <2> QED
    BY <1>3, <1>5, <2>1, <2>2, enqueueIs
<1> QED
  BY <1>7, <1>8, <1>9, <1>10

(* Every idle handler of a loop gets its datum; its queue was empty. *)
LEMMA LoopStep == DInv /\ Loop => DInv'
<1> SUFFICES ASSUME DInv, Loop PROVE DInv'
  OBVIOUS
<1> USE DEF DInv
<1>1. PICK T : T = {t \in Threads : t[1] = core_i /\ flag[t] = 0}
  OBVIOUS
<1>2. /\ enqueue(1, T) /\ thread_i = 0 /\ Kind[core_i] = "loop" /\ Advance
      /\ UNCHANGED <<flag, left, fired, base, started>>
  BY <1>1 DEF Loop
<1>3. DispatchTypeOK'
  BY <1>2, enqueueIs, AdvanceFits DEF DispatchTypeOK
<1>4. ExactlyOnce'
  <2> SUFFICES ASSUME NEW t \in Timers
               PROVE  Once(t, Seen(t)', lost'[t], base'[t[1]], fired'[t[1]])
    BY OnceIsNext
  <2>1. t \in Threads /\ t \notin T
    BY <1>1, <1>2 DEF Timers
  <2>2. queue'[t] = queue[t] /\ lost'[t] = lost[t]
    BY <1>2, <2>1, enqueueIs
  <2>3. Seen(t)' = Seen(t)
    BY <1>2, <2>2 DEF Seen
  <2> QED
    BY <1>2, <2>2, <2>3, OnceIs
<1>5. LoopFresh'
  <2> SUFFICES ASSUME NEW t \in Threads, Kind[t[1]] = "loop"
               PROVE  /\ lost'[t] = {}
                      /\ queue'[t] # <<>> => /\ core_i' = t[1] /\ thread_i' \in 1 .. t[2]
                                            /\ flag[t] = 0 /\ queue'[t] = <<1>>
    BY <1>2 DEF LoopFresh
  <2>1. queue[t] = <<>> /\ lost[t] = {}
    BY <1>2, ThreadParts DEF LoopFresh
  <2>2. Len(queue[t]) < QUEUE_SIZE /\ ~(Len(queue[t]) >= QUEUE_SIZE)
    BY <2>1, DispatchAssumption
  <2>3. CASE t \in T
    <3>1. t[1] = core_i /\ flag[t] = 0 /\ core_i' = t[1] /\ thread_i' = 1 /\ 1 \in 1 .. t[2]
      BY <1>1, <1>2, <2>3, AdvanceFits, ThreadParts
    <3>2. queue'[t] = Append(queue[t], 1) /\ lost'[t] = lost[t]
      BY <1>2, <2>2, <2>3, enqueueIs
    <3>3. queue'[t] = <<1>>
      BY <2>1, <3>2
    <3> QED
      BY <2>1, <3>1, <3>2, <3>3
  <2>4. CASE t \notin T
    BY <1>2, <2>1, <2>4, enqueueIs
  <2> QED
    BY <2>3, <2>4
<1> QED
  BY <1>2, <1>3, <1>4, <1>5

(* A handler takes the oldest waiting event. *)
LEMMA StartStep == DInv /\ Start => DInv'
<1> SUFFICES ASSUME DInv, Start PROVE DInv'
  OBVIOUS
<1> USE DEF DInv
<1>1. PICK h \in Threads : h = Here
  BY HereIsThread DEF Start
<1>2. h[1] = core_i /\ h[2] = thread_i
  BY <1>1, HereIsThread DEF Start
<1>3. /\ thread_i # 0 /\ queue[h] # <<>> /\ flag' = [flag EXCEPT ![h] = 1] /\ Advance
      /\ \E n \in Lengths : left' = [left EXCEPT ![h] = n]
      /\ started' = IF Kind[core_i] = "loop" THEN started
                    ELSE [started EXCEPT ![h] = Append(@, Head(queue[h]))]
      /\ queue' = [queue EXCEPT ![h] = Tail(@)]
      /\ UNCHANGED <<fired, base, lost>>
  BY <1>1 DEF Start
<1>4. /\ queue[h] \in Seq(Nat) /\ started[h] \in Seq(Nat) /\ Len(queue[h]) <= QUEUE_SIZE
      /\ Len(queue[h]) \in Nat /\ QUEUE_SIZE \in Nat
  BY DispatchAssumption DEF DispatchTypeOK
<1>5. /\ Append(started[h], Head(queue[h])) \in Seq(Nat) /\ Tail(queue[h]) \in Seq(Nat)
      /\ Len(Tail(queue[h])) = Len(queue[h]) - 1
      /\ Append(started[h], Head(queue[h])) \o Tail(queue[h]) = started[h] \o queue[h]
  BY <1>3, <1>4, TakeFirst
<1>6. /\ queue' \in [Threads -> Seq(Nat)] /\ started' \in [Threads -> Seq(Nat)]
      /\ queue'[h] = Tail(queue[h])
      /\ \A t \in Threads : t # h => queue'[t] = queue[t] /\ started'[t] = started[t]
                                     /\ flag'[t] = flag[t]
  BY <1>3, <1>5 DEF DispatchTypeOK
<1>7. \A t \in Threads : Len(queue'[t]) <= QUEUE_SIZE
  <2>1. Len(queue'[h]) <= QUEUE_SIZE
    BY <1>4, <1>5, <1>6
  <2> QED
    BY <1>6, <2>1 DEF DispatchTypeOK
<1>8. flag' \in [Threads -> {0, 1}] /\ left' \in [Threads -> Nat \cup {Endless}]
  BY <1>3, DispatchAssumption DEF DispatchTypeOK
<1>9. DispatchTypeOK'
  BY <1>3, <1>6, <1>7, <1>8, AdvanceFits DEF DispatchTypeOK
<1>10. ExactlyOnce'
  <2> SUFFICES ASSUME NEW t \in Timers
               PROVE  Once(t, Seen(t)', lost'[t], base'[t[1]], fired'[t[1]])
    BY OnceIsNext
  <2>1. Seen(t)' = Seen(t)
    <3>1. CASE t = h
      <4>1. Kind[core_i] # "loop" /\ started'[h] = Append(started[h], Head(queue[h]))
        BY <1>2, <1>3, <3>1 DEF Timers, DispatchTypeOK
      <4> QED
        BY <1>5, <1>6, <3>1, <4>1 DEF Seen
    <3>2. CASE t # h
      BY <1>6, <3>2 DEF Seen, Timers
    <3> QED
      BY <3>1, <3>2
  <2> QED
    BY <1>3, <2>1, OnceIs
<1>11. LoopFresh'
  <2> SUFFICES ASSUME NEW t \in Threads, Kind[t[1]] = "loop"
               PROVE  /\ lost[t] = {}
                      /\ queue'[t] # <<>> => /\ core_i' = t[1] /\ thread_i' \in 1 .. t[2]
                                            /\ flag'[t] = 0 /\ queue'[t] = <<1>>
    BY <1>3 DEF LoopFresh
  <2>1. lost[t] = {}
    BY DEF LoopFresh
  <2>2. CASE t = h
    <3>1. queue[h] = <<1>>
      BY <1>3, <2>2 DEF LoopFresh
    <3>2. Tail(queue[h]) = <<>>
      BY <3>1
    <3> QED
      BY <1>6, <2>1, <2>2, <3>2
  <2>3. CASE t # h /\ queue'[t] # <<>>
    <3>1. queue[t] # <<>> /\ queue'[t] = queue[t] /\ flag'[t] = flag[t]
      BY <1>6, <2>3
    <3>2. core_i = t[1] /\ thread_i \in 1 .. t[2] /\ flag[t] = 0 /\ queue[t] = <<1>>
      BY <3>1 DEF LoopFresh
    <3>3. core_i' = t[1] /\ thread_i' \in 1 .. t[2]
      BY <1>1, <1>3, <2>3, <3>2, AdvanceFits
    <3> QED
      BY <2>1, <3>1, <3>2, <3>3
  <2> QED
    BY <2>1, <2>2, <2>3
<1> QED
  BY <1>3, <1>9, <1>10, <1>11

(* The handlers of a new state know nothing of what went before. *)
LEMMA TransitionStep == DInv /\ Transition => DInv'
<1> SUFFICES ASSUME DInv, Transition PROVE DInv'
  OBVIOUS
<1> USE DEF DInv
<1>1. /\ core_i' = 1 /\ thread_i' = 0 /\ fired' = fired /\ base' = fired
      /\ flag' = [t \in Threads |-> 0] /\ queue' = [t \in Threads |-> <<>>]
      /\ left' = [t \in Threads |-> 0] /\ started' = [t \in Threads |-> <<>>]
      /\ lost' = [t \in Threads |-> {}]
  BY DEF Transition, NewThreads
<1>2. 1 \in CoreIndex /\ Size[1] \in Nat /\ QUEUE_SIZE \in Nat
  BY DispatchAssumption DEF CoreIndex
<1>3. <<>> \in Seq(Nat) /\ Len(<<>>) = 0
  OBVIOUS
<1>4. DispatchTypeOK'
  <2>1. core_i' \in CoreIndex /\ thread_i' \in 0 .. Size[core_i']
    BY <1>1, <1>2
  <2>2. /\ flag' \in [Threads -> {0, 1}] /\ queue' \in [Threads -> Seq(Nat)]
        /\ left' \in [Threads -> Nat \cup {Endless}] /\ started' \in [Threads -> Seq(Nat)]
        /\ lost' \in [Threads -> SUBSET Nat]
    BY <1>1, <1>3
  <2>3. \A t \in Threads : Len(queue'[t]) <= QUEUE_SIZE
    BY <1>1, <1>2, <1>3
  <2> QED
    BY <1>1, <2>1, <2>2, <2>3 DEF DispatchTypeOK
<1>5. \A c \in CoreIndex : fired[c] \in Nat /\ base'[c] <= fired'[c]
  BY <1>1, DispatchAssumption DEF DispatchTypeOK
<1>6. ExactlyOnce'
  <2> SUFFICES ASSUME NEW t \in Timers
               PROVE  Once(t, Seen(t)', lost'[t], base'[t[1]], fired'[t[1]])
    BY OnceIsNext
  <2>1. t \in Threads /\ fired[t[1]] \in Nat
    BY <1>5, ThreadParts DEF Timers
  <2>2. Seen(t)' = <<>>
    BY <1>1, <2>1 DEF Seen
  <2> QED
    BY <1>1, <2>1, <2>2, OnceFresh
<1>7. LoopFresh'
  BY <1>1 DEF LoopFresh
<1> QED
  BY <1>4, <1>5, <1>6, <1>7

(* The invariant holds when the loop begins ...                            *)
LEMMA DispatchInit == Init => DInv
<1> SUFFICES ASSUME Init PROVE DInv
  OBVIOUS
<1>1. /\ core_i = 1 /\ thread_i = 0 /\ fired = [c \in CoreIndex |-> 0] /\ base = fired
      /\ flag = [t \in Threads |-> 0] /\ queue = [t \in Threads |-> <<>>]
      /\ left = [t \in Threads |-> 0] /\ started = [t \in Threads |-> <<>>]
      /\ lost = [t \in Threads |-> {}]
  BY DEF Init
<1>2. 1 \in CoreIndex /\ Size[1] \in Nat /\ QUEUE_SIZE \in Nat /\ MaxFires \in Nat
  BY DispatchAssumption DEF CoreIndex
<1>3. <<>> \in Seq(Nat) /\ Len(<<>>) = 0
  OBVIOUS
<1>4. DispatchTypeOK
  <2>1. core_i \in CoreIndex /\ thread_i \in 0 .. Size[core_i]
    BY <1>1, <1>2
  <2>2. /\ flag \in [Threads -> {0, 1}] /\ queue \in [Threads -> Seq(Nat)]
        /\ left \in [Threads -> Nat \cup {Endless}] /\ started \in [Threads -> Seq(Nat)]
        /\ lost \in [Threads -> SUBSET Nat]
    BY <1>1, <1>3
  <2>3. \A t \in Threads : Len(queue[t]) <= QUEUE_SIZE
    BY <1>1, <1>2, <1>3
  <2>4. fired \in [CoreIndex -> 0 .. MaxFires] /\ base \in [CoreIndex -> 0 .. MaxFires]
    BY <1>1, <1>2
  <2> QED
    BY <2>1, <2>2, <2>3, <2>4 DEF DispatchTypeOK
<1>5. ExactlyOnce
  <2> SUFFICES ASSUME NEW t \in Timers
               PROVE  Once(t, Seen(t), lost[t], base[t[1]], fired[t[1]])
    BY OnceIs
  <2>1. t \in Threads /\ fired[t[1]] = 0
    BY <1>1, ThreadParts DEF Timers
  <2>2. Seen(t) = <<>>
    BY <1>1, <2>1 DEF Seen
  <2> QED
    BY <1>1, <2>1, <2>2, OnceFresh
<1>6. LoopFresh /\ \A c \in CoreIndex : base[c] <= fired[c]
  BY <1>1 DEF LoopFresh
<1> QED
  BY <1>4, <1>5, <1>6 DEF DInv

(* ... and is preserved by every step of it.                               *)
LEMMA DispatchNext == DInv /\ [Next]_vars => DInv'
<1> SUFFICES ASSUME DInv, [Next]_vars PROVE DInv'
  OBVIOUS
<1>1. CASE NothingFired \/ Yield \/ EndOfEvent \/ Idle
  BY <1>1, QuietSteps
<1>2. CASE Fire
  BY <1>2, FireStep
<1>3. CASE Loop
  BY <1>3, LoopStep
<1>4. CASE Transition
  BY <1>4, TransitionStep
<1>5. CASE Start
  BY <1>5, StartStep
<1>6. CASE UNCHANGED vars
  <2>1. DispatchTypeOK' /\ LoopFresh' /\ \A c \in CoreIndex : base'[c] <= fired'[c]
    BY <1>6 DEF DInv, vars, DispatchTypeOK, LoopFresh
  <2>2. ExactlyOnce'
    BY <1>6 DEF DInv, vars, ExactlyOnce, Seen, Delivered, Concern
  <2> QED
    BY <2>1, <2>2 DEF DInv
<1> QED
  BY <1>1, <1>2, <1>3, <1>4, <1>5, <1>6 DEF Next

(* DInv holds in every state of the main loop. *)
LEMMA DispatchInvariant == Spec => []DInv
<1>1. DInv /\ [Next]_vars => DInv'
  BY DispatchNext
<1> QED
  BY <1>1, DispatchInit, PTL DEF Spec

(* The main loop's turn, flags and queues keep their types, and a queue    *)
(* never exceeds its slots, for any number of cores and handlers           *)
(* (run.c:293-396, object.c:837-902).                                      *)
THEOREM DispatchTypes == Spec => []DispatchTypeOK
<1>1. DInv => DispatchTypeOK
  BY DEF DInv
<1> QED
  BY <1>1, DispatchInvariant, PTL

(* Each handler gets every firing its condition accepts exactly once and   *)
(* in order, but those its full queue refuses, in any mix of handlers and  *)
(* transitions (run.c:293-396, stdlib-execute.c:97-140).                   *)
THEOREM DispatchExactlyOnce == Spec => []ExactlyOnce
<1>1. DInv => ExactlyOnce
  BY DEF DInv
<1> QED
  BY <1>1, DispatchInvariant, PTL

(* A loop handler never has a backlog (stdlib-execute.c:75-93,             *)
(* run.c:385-389).                                                         *)
THEOREM DispatchLoopFresh == Spec => []LoopFresh
<1>1. DInv => LoopFresh
  BY DEF DInv
<1> QED
  BY <1>1, DispatchInvariant, PTL
=============================================================================
