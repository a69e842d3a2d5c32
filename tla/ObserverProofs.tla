--------------------------- MODULE ObserverProofs ---------------------------
(* Observer's invariant is inductive, and its properties follow from it,   *)
(* for any number of verbs and any clock.                                  *)
EXTENDS ObserverInv, TLAPS

(* The arithmetic of the backed-off window: a count is worth at least the  *)
(* bare window, whether or not counting can fail.                          *)
LEMMA WaitBounds ==
    ASSUME NEW k \in Nat
    PROVE  /\ (k + 1) * T \in Nat
           /\ (k + 1) * T >= T
           /\ Wait(k) \in Nat
           /\ Wait(k) >= T
<1>1. T \in Nat
  BY ClockAssumption
<1>2. k * T \in Nat
  BY <1>1
<1>3. (k + 1) * T = k * T + T
  BY <1>1
<1>4. (k + 1) * T \in Nat /\ (k + 1) * T >= T
  BY <1>1, <1>2, <1>3
<1> QED
  BY <1>1, <1>4, FaultAssumption DEF Wait

(* Whatever TakeoverCount answers, the threshold is at least the wait.     *)
LEMMA ThresholdCoversWait ==
    ASSUME NEW t \in TipIds, chain \in [TipIds -> Nat],
           NEW k \in TakeoverCounts(t)
    PROVE  k \in Nat /\ (k + 1) * T \in Nat /\ (k + 1) * T >= Wait(chain[t])
<1>1. chain[t] \in Nat
  OBVIOUS
<1>2. CASE CountFaults
  <2>1. k \in Nat
    BY <1>1, <1>2 DEF TakeoverCounts
  <2>2. (k + 1) * T \in Nat /\ (k + 1) * T >= T
    BY <2>1, WaitBounds
  <2>3. Wait(chain[t]) = T
    BY <1>2 DEF Wait
  <2> QED
    BY <2>1, <2>2, <2>3
<1>3. CASE ~CountFaults
  <2>1. k = chain[t]
    BY <1>3 DEF TakeoverCounts
  <2>2. Wait(chain[t]) = (k + 1) * T
    BY <1>3, <2>1 DEF Wait
  <2>3. (k + 1) * T \in Nat
    BY <1>1, <2>1, WaitBounds
  <2> QED
    BY <1>1, <2>1, <2>2, <2>3
<1> QED
  BY <1>2, <1>3

(* A fresh window is a window of one look and no span.                     *)
LEMMA FreshWindow ==
    ASSUME NEW t \in TipIds, NEW at \in Times
    PROVE  /\ Fresh(t, at) \in Window
           /\ Fresh(t, at).tip = t
           /\ Fresh(t, at).first = at
           /\ Fresh(t, at).last = at
           /\ Fresh(t, at).samples = 1
           /\ Span(Fresh(t, at)) = 0
BY ClockAssumption DEF Fresh, Window, Times, Tips, TipIds, Span

(* Observe keeps a window sound: the look it folds in was taken while the  *)
(* watched tip was the remote's, and adds at most Gap to the span.         *)
LEMMA ObserveSound ==
    ASSUME TypeOK, RefsInv,
           NEW w \in Window, Sound(w),
           NEW t \in TipIds, t < next,
           NEW at \in Times, at <= now, t = remote => bornAt <= at,
           NEW reached \in BOOLEAN,
           Observe(w, t, at, reached).samples <= MaxSamples
    PROVE  /\ Observe(w, t, at, reached) \in Window
           /\ Observe(w, t, at, reached).tip = t
           /\ Observe(w, t, at, reached).last = at
           /\ Sound(Observe(w, t, at, reached))
<1> DEFINE o == Observe(w, t, at, reached)
<1>0. Gap \in Nat /\ now \in Nat /\ at \in Nat /\ bornAt \in Nat
  BY ClockAssumption DEF TypeOK, Times
<1>1. CASE w.tip # t \/ at - w.last > Gap
  <2>1. o = Fresh(t, at)
    BY <1>1 DEF Observe
  <2>2. Span(o) <= (o.samples - 1) * Gap
    BY <1>0, <2>1, FreshWindow
  <2> QED
    BY <1>0, <2>1, <2>2, FreshWindow DEF Sound
<1>2. CASE w.tip = t /\ ~(at - w.last > Gap)
  <2>1. o = [w EXCEPT !.last = at, !.samples = @ + 1, !.reached = @ \/ reached]
    BY <1>2 DEF Observe
  <2>2. /\ w.first \in Nat /\ w.last \in Nat /\ w.samples \in Nat
        /\ w.tip \in Tips /\ w.first \in Times
    BY DEF Window, Times
  <2>3. /\ o.tip = t /\ o.first = w.first /\ o.last = at
        /\ o.samples = w.samples + 1
    BY <1>2, <2>1 DEF Window
  <2>4. w.tip # 0
    BY <1>2 DEF TipIds
  <2>5. o \in Window
    <3>1. o.samples \in 0..MaxSamples
      BY <2>2, <2>3, ClockAssumption
    <3>2. o.reached \in BOOLEAN
      BY <2>1 DEF Window
    <3> HIDE DEF o
    <3>3. w.samples + 1 \in 0..MaxSamples
      BY <3>1, <2>3
    <3> QED
      BY <2>1, <3>3 DEF Window
  <2>6. /\ w.samples >= 1 /\ Span(w) <= (w.samples - 1) * Gap
        /\ w.tip = remote => bornAt <= w.first
    BY <2>4 DEF Sound
  <2>7. Span(o) <= Span(w) + Gap
    BY <1>0, <1>2, <2>2, <2>3 DEF Span
  <2>8. (o.samples - 1) * Gap = (w.samples - 1) * Gap + Gap
    <3>1. o.samples - 1 = (w.samples - 1) + 1
      BY <2>2, <2>3
    <3>2. w.samples - 1 \in Int
      BY <2>2
    <3>3. \A n \in Int : (n + 1) * Gap = n * Gap + Gap
      BY <1>0
    <3> QED
      BY <3>1, <3>2, <3>3
  <2>9. Span(o) <= (o.samples - 1) * Gap
    <3>1. Span(w) \in Int /\ Span(o) \in Int
      BY <1>0, <2>2, <2>3 DEF Span
    <3>2. (w.samples - 1) * Gap \in Int
      BY <1>0, <2>2
    <3> HIDE DEF o
    <3> QED
      BY <1>0, <2>6, <2>7, <2>8, <3>1, <3>2
  <2> HIDE DEF o
  <2>10. Sound(o)
    BY <1>0, <1>2, <2>2, <2>3, <2>6, <2>9 DEF Sound
  <2> QED
    BY <2>3, <2>5, <2>10 DEF o
<1> QED
  BY <1>1, <1>2

(* A window stays sound while time passes and the ref moves on, because    *)
(* a tip the ref has left never comes back.                                *)
LEMMA SoundStays ==
    ASSUME TypeOK, TypeOK', NEW w \in Window, Sound(w),
           next <= next', now <= now',
           \/ UNCHANGED <<remote, bornAt>>
           \/ remote' \in {0, next}
    PROVE  Sound(w)'
<1>1. /\ next \in Nat /\ next' \in Nat /\ now \in Nat /\ now' \in Nat
      /\ w.tip \in Nat /\ w.last \in Nat /\ remote \in Nat /\ remote' \in Nat
  BY ClockAssumption DEF TypeOK, Window, Times, Tips
<1> QED
  BY <1>1 DEF Sound, Span

(* So does everything known of a verb that takes no step.                  *)
LEMMA VerbStays ==
    ASSUME TypeOK, TypeOK', NEW r \in Verb, VerbInv(r),
           next <= next', now <= now',
           \A t \in TipIds : t < next => chain'[t] = chain[t],
           \/ UNCHANGED <<remote, bornAt>>
           \/ remote' = 0 /\ bornAt' = 0
           \/ remote' = next /\ next < next'
    PROVE  VerbInv(r)'
<1>1. /\ next \in Nat /\ next' \in Nat /\ now \in Nat /\ now' \in Nat
      /\ remote \in Nat /\ remote' \in Nat /\ bornAt \in Nat /\ bornAt' \in Nat
      /\ r.watch \in Tips /\ r.watch \in Nat /\ r.at \in Nat
      /\ r.win \in Window /\ r.win.tip \in Tips /\ r.stale \in BOOLEAN
  BY ClockAssumption DEF TypeOK, Verb, Window, Times, Tips
<1>2. Sound(r.win)'
  BY <1>1, SoundStays DEF VerbInv
<1>3. r.watch < next' /\ r.at <= now'
  BY <1>1 DEF VerbInv
<1>4. r.pc = "clocked" /\ r.watch = remote' => bornAt' <= r.at
  BY <1>1 DEF VerbInv
<1>5. r.stale => Wait(chain[r.win.tip])' = Wait(chain[r.win.tip])
  <2>1. r.stale => r.win.tip # 0 /\ r.win.tip < next
    BY DEF VerbInv, Sound
  <2>2. r.stale => r.win.tip \in TipIds
    BY <1>1, <2>1 DEF Tips, TipIds
  <2> QED
    BY <2>1, <2>2 DEF Wait
<1>6. r.pc = "take" /\ r.watch = remote' => now' - bornAt' > Wait(chain[r.watch])'
  <2>1. SUFFICES ASSUME r.pc = "take", r.watch = remote'
                 PROVE  now' - bornAt' > Wait(chain[r.watch])'
    OBVIOUS
  <2>2. r.watch # 0 /\ r.watch < next
    BY <2>1 DEF VerbInv
  <2>3. remote' = remote /\ bornAt' = bornAt
    BY <1>1, <2>1, <2>2
  <2>4. now - bornAt > Wait(chain[r.watch])
    BY <2>1, <2>3 DEF VerbInv
  <2>5. r.watch \in TipIds
    BY <1>1, <2>2 DEF Tips, TipIds
  <2>6. Wait(chain[r.watch])' = Wait(chain[r.watch]) /\ Wait(chain[r.watch]) \in Nat
    BY <2>2, <2>5, WaitBounds DEF Wait, TypeOK
  <2> HIDE DEF Wait
  <2> QED
    BY <1>1, <2>3, <2>4, <2>6
<1> QED
  BY <1>2, <1>3, <1>4, <1>5, <1>6 DEF VerbInv, Span

(* The idle verb knows nothing and satisfies the invariant.                *)
LEMMA IdleVerb == next \in Nat \ {0} /\ now \in Nat /\ bornAt \in Nat
                    => Idle \in Verb /\ VerbInv(Idle)
BY ClockAssumption DEF Idle, Verb, VerbInv, NoWindow, Window, Sound, PCs, Fetches,
   Times, Tips

(* How a step may change what all the verbs share.                         *)
Onward ==
    /\ next <= next' /\ now <= now'
    /\ \A t \in TipIds : t < next => chain'[t] = chain[t]
    /\ \/ UNCHANGED <<remote, bornAt>>
       \/ remote' = 0 /\ bornAt' = 0
       \/ remote' = next /\ next < next'

(* A step that leaves the verbs alone.                                     *)
LEMMA OthersStep ==
    ASSUME IInv, TypeOK', RefsInv', Onward, Sound(store)', UNCHANGED run
    PROVE  IInv'
<1>1. ASSUME NEW q \in Runs PROVE VerbInv(run[q])'
  <2>1. PICK r \in Verb : r = run[q]
    BY DEF IInv, TypeOK
  <2>2. VerbInv(r) /\ TypeOK
    BY <2>1 DEF IInv
  <2>3. VerbInv(r)'
    BY <2>2, VerbStays DEF Onward
  <2>4. r = run'[q]
    BY <2>1
  <2> QED
    BY <2>3, <2>4
<1> QED
  BY <1>1 DEF IInv

(* A step of the verb p, which moves to the record r.                      *)
LEMMA VerbStep ==
    ASSUME IInv, TypeOK', RefsInv', Onward, Sound(store)',
           NEW p \in Runs, NEW r,
           run' = [run EXCEPT ![p] = r], VerbInv(r)'
    PROVE  IInv'
<1>1. ASSUME NEW q \in Runs PROVE VerbInv(run[q])'
  <2>1. run \in [Runs -> Verb]
    BY DEF IInv, TypeOK
  <2>2. CASE q = p
    BY <2>1, <2>2
  <2>3. CASE q # p
    <3>1. PICK s \in Verb : s = run[q]
      BY <2>1
    <3>2. VerbInv(s) /\ TypeOK
      BY <3>1 DEF IInv
    <3>3. run'[q] = s
      BY <2>1, <2>3, <3>1
    <3>4. VerbInv(s)'
      BY <3>2, VerbStays DEF Onward
    <3> QED
      BY <3>3, <3>4
  <2> QED
    BY <2>2, <2>3
<1> QED
  BY <1>1 DEF IInv

(* The numbers of a state.                                                 *)
LEMMA Numbers ==
    ASSUME TypeOK
    PROVE  /\ now \in Nat /\ bornAt \in Nat /\ next \in Nat \ {0}
           /\ remote \in Nat /\ view \in Nat
           /\ MaxTips \in Nat /\ MaxTime \in Nat /\ Gap \in Nat /\ T \in Nat
           /\ now \in Times
BY ClockAssumption DEF TypeOK, Times, Tips

(* Nothing shared changes but the clone's own state.                       *)
LEMMA StillOnward ==
    ASSUME IInv, UNCHANGED <<now, refVars>>, view' \in {view, remote}
    PROVE  Onward /\ RefsInv'
BY Numbers DEF Onward, refVars, IInv, RefsInv

(* The stored window is as sound as before when neither it nor the ref     *)
(* changed.                                                                *)
LEMMA StoreStays ==
    ASSUME IInv, TypeOK', Onward, UNCHANGED store
    PROVE  Sound(store)'
<1>1. PICK w \in Window : w = store
  BY DEF IInv, TypeOK
<1>2. store' = w /\ Sound(w) /\ TypeOK
  BY <1>1 DEF IInv
<1>3. next <= next' /\ now <= now'
      /\ (UNCHANGED <<remote, bornAt>> \/ remote' \in {0, next})
  BY DEF Onward
<1>4. Sound(w)'
  BY <1>2, <1>3, SoundStays
<1> QED
  BY <1>2, <1>4

(* MoveTo gives the ref a tip no window and no verb knows.                 *)
LEMMA MoveOnward ==
    ASSUME IInv, NEW k \in Nat, MoveTo(k), UNCHANGED now,
           view' = view \/ view' = next
    PROVE  /\ Onward /\ RefsInv'
           /\ remote' \in Tips /\ view' \in Tips /\ next' \in 1..(MaxTips + 1)
           /\ bornAt' \in Times /\ chain' \in [TipIds -> Nat]
<1>1. TypeOK /\ RefsInv
  BY DEF IInv
<1>2. next \in TipIds
  BY <1>1, Numbers DEF MoveTo, TipIds
<1>3. next' = next + 1 /\ remote' = next /\ bornAt' = now /\ now' = now
      /\ chain' = [chain EXCEPT ![next] = k]
  BY DEF MoveTo
<1>4. chain' \in [TipIds -> Nat] /\ \A t \in TipIds : t < next => chain'[t] = chain[t]
  BY <1>1, <1>2, <1>3, Numbers DEF TypeOK, TipIds
<1>5. Onward /\ RefsInv'
  BY <1>1, <1>2, <1>3, <1>4, Numbers DEF Onward, RefsInv
<1> QED
  BY <1>1, <1>2, <1>3, <1>4, <1>5, Numbers DEF TypeOK, Tips, TipIds

(* Time, the other hosts and a lost state file preserve the invariant.     *)
LEMMA EnvironmentStep ==
    ASSUME IInv, Tick \/ Push \/ Delete \/ LoseStore
    PROVE  IInv'
<1>0. TypeOK /\ RefsInv
  BY DEF IInv
<1>1. CASE Tick
  <2>1. TypeOK'
    BY <1>0, <1>1, Numbers DEF Tick, TypeOK, refVars, Times
  <2>2. Onward /\ RefsInv'
    BY <1>0, <1>1, Numbers DEF Tick, refVars, Onward, RefsInv
  <2>3. Sound(store)'
    BY <1>1, <2>1, <2>2, StoreStays DEF Tick
  <2> QED
    BY <1>1, <2>1, <2>2, <2>3, OthersStep DEF Tick
<1>2. CASE Push
  <2>1. PICK k \in Nat : MoveTo(k)
    <3>1. CASE remote = 0
      BY <1>2, <3>1 DEF Push
    <3>2. CASE remote # 0
      <4>1. chain[remote] \in Nat /\ chain[remote] + 1 \in Nat
        BY <1>0, <3>2 DEF TypeOK, Tips, TipIds
      <4> QED
        BY <1>2, <3>2, <4>1 DEF Push
    <3> QED
      BY <3>1, <3>2
  <2>2. UNCHANGED <<now, view, store, run>>
    BY <1>2 DEF Push
  <2>3. TypeOK' /\ Onward /\ RefsInv'
    BY <1>0, <2>1, <2>2, MoveOnward DEF TypeOK
  <2>4. Sound(store)'
    BY <2>2, <2>3, StoreStays
  <2> QED
    BY <2>2, <2>3, <2>4, OthersStep
<1>3. CASE Delete
  <2>1. TypeOK'
    BY <1>0, <1>3, Numbers DEF Delete, TypeOK, Tips, Times
  <2>2. Onward /\ RefsInv'
    BY <1>0, <1>3, Numbers DEF Delete, Onward, RefsInv
  <2>3. Sound(store)'
    BY <1>3, <2>1, <2>2, StoreStays DEF Delete
  <2> QED
    BY <1>3, <2>1, <2>2, <2>3, OthersStep DEF Delete
<1>4. CASE LoseStore
  <2>1. store' = NoWindow /\ UNCHANGED <<now, refVars, view, run>>
    BY <1>4 DEF LoseStore
  <2>2. NoWindow \in Window /\ NoWindow.tip = 0
    BY <1>0, Numbers, ClockAssumption DEF NoWindow, Window, Tips, Times
  <2>3. TypeOK'
    BY <1>0, <2>1, <2>2 DEF TypeOK, refVars
  <2>4. Onward /\ RefsInv'
    BY <2>1, StillOnward
  <2>5. Sound(store)'
    BY <2>1, <2>2 DEF Sound
  <2> QED
    BY <2>1, <2>3, <2>4, <2>5, OthersStep
<1> QED
  BY <1>1, <1>2, <1>3, <1>4

(* A verb that ends, whatever it did to the ref or the state file.         *)
LEMMA EndStep ==
    ASSUME IInv, TypeOK', RefsInv', Onward, Sound(store)',
           NEW p \in Runs, run' = [run EXCEPT ![p] = Idle]
    PROVE  IInv'
<1>1. VerbInv(Idle)'
  <2>1. next' \in Nat \ {0} /\ now' \in Nat /\ bornAt' \in Nat
    BY ClockAssumption DEF TypeOK, Times
  <2>2. Idle = Idle'
    BY DEF Idle, NoWindow
  <2> QED
    BY <2>1, ClockAssumption DEF Idle, VerbInv, NoWindow, Sound
<1> QED
  BY <1>1, VerbStep

(* Nothing shared changes: the types follow from the new record's.         *)
LEMMA OwnTypes ==
    ASSUME IInv, NEW p \in Runs, NEW r \in Verb,
           run' = [run EXCEPT ![p] = r],
           UNCHANGED <<now, refVars>>, view' \in {view, remote}, store' \in Window
    PROVE  TypeOK'
BY DEF IInv, TypeOK, refVars

(* A gather: the watched tip is one the ref has had.                       *)
LEMMA GatherStep ==
    ASSUME IInv, NEW p \in Runs, Gather(p)
    PROVE  IInv'
<1>0. TypeOK /\ RefsInv
  BY DEF IInv
<1>1. PICK f \in Fetches :
        /\ view' = IF f = "here" THEN remote ELSE view
        /\ run' = [run EXCEPT ![p] = [Idle EXCEPT
                      !.pc = "gathered", !.watch = view', !.fetched = f]]
  BY DEF Gather
<1>2. UNCHANGED <<now, refVars, store>>
  BY DEF Gather
<1>3. PICK v \in Tips : v = view' /\ v < next
  BY <1>0, <1>1 DEF TypeOK, RefsInv
<1> DEFINE r == [Idle EXCEPT !.pc = "gathered", !.watch = v, !.fetched = f]
<1>4. Idle \in Verb
  BY <1>0, Numbers, IdleVerb
<1>5. r \in Verb /\ r.pc = "gathered" /\ r.watch = v /\ r.at = 0
      /\ r.win = NoWindow /\ r.stale = FALSE
  BY <1>3, <1>4 DEF Verb, PCs, Idle
<1>6. run' = [run EXCEPT ![p] = r]
  BY <1>1, <1>3
<1> HIDE DEF r
<1>7. Onward /\ RefsInv'
  BY <1>1, <1>2, StillOnward
<1>8. TypeOK'
  BY <1>0, <1>1, <1>2, <1>5, <1>6, OwnTypes DEF TypeOK
<1>9. Sound(store)'
  BY <1>2, <1>7, <1>8, StoreStays
<1>10. VerbInv(r)'
  BY <1>0, <1>2, <1>3, <1>5, Numbers DEF VerbInv, Sound, NoWindow, refVars
<1> QED
  BY <1>6, <1>7, <1>8, <1>9, <1>10, VerbStep

(* The clock is read after the tip was: no tip is from the future.         *)
LEMMA ReadClockStep ==
    ASSUME IInv, NEW p \in Runs, ReadClock(p)
    PROVE  IInv'
<1>0. TypeOK /\ RefsInv
  BY DEF IInv
<1>1. PICK s \in Verb : s = run[p]
  BY <1>0 DEF TypeOK
<1>2. PICK t \in Times : t = now
  BY <1>0 DEF TypeOK
<1> DEFINE r == [s EXCEPT !.pc = "clocked", !.at = t]
<1>3. r \in Verb /\ r.pc = "clocked" /\ r.at = t /\ r.watch = s.watch
      /\ r.win = s.win /\ r.stale = s.stale
  BY DEF Verb, PCs
<1>4. run' = [run EXCEPT ![p] = r]
  BY <1>0, <1>1, <1>2 DEF ReadClock, TypeOK, Verb
<1>5. VerbInv(s) /\ s.pc = "gathered"
  BY <1>1 DEF IInv, ReadClock
<1> HIDE DEF r
<1>6. UNCHANGED <<now, refVars, view, store>>
  BY DEF ReadClock
<1>7. Onward /\ RefsInv' /\ TypeOK'
  BY <1>0, <1>3, <1>4, <1>6, StillOnward, OwnTypes DEF TypeOK
<1>8. Sound(store)'
  BY <1>6, <1>7, StoreStays
<1>9. VerbInv(r)'
  BY <1>0, <1>2, <1>3, <1>5, <1>6, Numbers DEF VerbInv, Sound, refVars, RefsInv
<1> QED
  BY <1>4, <1>7, <1>8, <1>9, VerbStep

(* Folding the look in: the window stays sound, and a stale verdict means  *)
(* a span beyond the wait.                                                 *)
LEMMA FoldStep ==
    ASSUME IInv, NEW p \in Runs, Fold(p)
    PROVE  IInv'
<1>0. TypeOK /\ RefsInv /\ Sound(store)
  BY DEF IInv
<1>1. PICK s \in Verb : s = run[p]
  BY <1>0 DEF TypeOK
<1>2. VerbInv(s) /\ s.pc = "clocked"
  BY <1>1 DEF IInv, Fold
<1>3. UNCHANGED <<now, refVars, view, store>>
  BY DEF Fold
<1>4. Idle \in Verb
  BY <1>0, Numbers, IdleVerb
<1>5. ASSUME NEW w \in Window, Sound(w), NEW b \in BOOLEAN,
             b => w.tip # 0 /\ Span(w) > Wait(chain[w.tip]),
             run' = [run EXCEPT ![p] =
                       [Idle EXCEPT !.pc = "save", !.win = w, !.stale = b]]
      PROVE  IInv'
  <2> DEFINE r == [Idle EXCEPT !.pc = "save", !.win = w, !.stale = b]
  <2>1. r \in Verb /\ r.pc = "save" /\ r.win = w /\ r.stale = b
        /\ r.watch = 0 /\ r.at = 0
    BY <1>4, <1>5 DEF Verb, PCs, Idle
  <2> HIDE DEF r
  <2>2. run' = [run EXCEPT ![p] = r]
    BY <1>5 DEF r
  <2>3. Onward /\ RefsInv' /\ TypeOK'
    BY <1>0, <1>3, <2>1, <2>2, StillOnward, OwnTypes DEF TypeOK
  <2>4. Sound(store)'
    BY <1>3, <2>3, StoreStays
  <2>5. VerbInv(r)'
    BY <1>0, <1>3, <1>5, <2>1, Numbers DEF VerbInv, Sound, refVars, Wait
  <2> QED
    BY <2>2, <2>3, <2>4, <2>5, VerbStep
<1>6. CASE s.watch = 0
  <2>1. PICK w \in {NoWindow, store} :
          run' = [run EXCEPT ![p] = [Idle EXCEPT !.pc = "save", !.win = w]]
    BY <1>1, <1>6 DEF Fold
  <2>2. NoWindow \in Window /\ Sound(NoWindow)
    BY ClockAssumption DEF NoWindow, Window, Sound, Tips, Times
  <2>3. PICK v \in Window : v = w /\ Sound(v)
    BY <1>0, <2>1, <2>2 DEF TypeOK
  <2>4. [Idle EXCEPT !.pc = "save", !.win = v]
          = [Idle EXCEPT !.pc = "save", !.win = v, !.stale = FALSE]
    <3>1. Idle.stale = FALSE
      BY DEF Idle
    <3> QED
      BY <1>4, <3>1 DEF Verb
  <2>5. run' = [run EXCEPT ![p] =
                  [Idle EXCEPT !.pc = "save", !.win = v, !.stale = FALSE]]
    BY <2>1, <2>3, <2>4
  <2> QED
    BY <1>5, <2>3, <2>5
<1>7. CASE s.watch # 0
  <2> DEFINE f == s.fetched = "here"
             o == Observe(store, s.watch, s.at, f)
  <2>1. o.samples <= MaxSamples
    BY <1>1, <1>7 DEF Fold
  <2>2. PICK k \in TakeoverCounts(s.watch) :
          run' = [run EXCEPT ![p] = [Idle EXCEPT !.pc = "save", !.win = o,
                    !.stale = StaleHold(o, s.at, (k + 1) * T)]]
    BY <1>1, <1>7 DEF Fold
  <2>3. s.watch \in TipIds /\ s.watch < next /\ s.at \in Times /\ s.at <= now
        /\ (s.watch = remote => bornAt <= s.at)
    BY <1>0, <1>2, <1>7, Numbers DEF Verb, VerbInv, Tips, TipIds
  <2>4. store \in Window /\ f \in BOOLEAN
    BY <1>0 DEF TypeOK
  <2> HIDE DEF f
  <2>5. o \in Window /\ o.tip = s.watch /\ Sound(o)
    BY <1>0, <2>1, <2>3, <2>4, ObserveSound
  <2> DEFINE b == StaleHold(o, s.at, (k + 1) * T)
  <2>6. b \in BOOLEAN
    BY DEF StaleHold
  <2>7. ASSUME b PROVE o.tip # 0 /\ Span(o) > Wait(chain[o.tip])
    <3>1. (k + 1) * T \in Nat /\ (k + 1) * T >= Wait(chain[s.watch])
      BY <1>0, <2>2, <2>3, ThresholdCoversWait DEF TypeOK
    <3>2. chain[s.watch] \in Nat
      BY <1>0, <2>3 DEF TypeOK
    <3>3. Wait(chain[s.watch]) \in Nat
      BY <3>2, WaitBounds
    <3>4. o.tip # 0 /\ Span(o) > (k + 1) * T
      BY <2>7 DEF StaleHold
    <3>5. Span(o) \in Int
      BY <2>5, Numbers, <1>0 DEF Span, Window, Times
    <3> HIDE DEF o
    <3> QED
      BY <2>5, <3>1, <3>3, <3>4, <3>5
  <2> HIDE DEF o, b
  <2>8. run' = [run EXCEPT ![p] = [Idle EXCEPT !.pc = "save", !.win = o, !.stale = b]]
    BY <2>2 DEF b
  <2>9. PICK w \in Window, c \in BOOLEAN : w = o /\ c = b
    BY <2>5, <2>6
  <2>10. Sound(w) /\ (c => w.tip # 0 /\ Span(w) > Wait(chain[w.tip]))
    BY <2>5, <2>7, <2>9
  <2>11. run' = [run EXCEPT ![p] = [Idle EXCEPT !.pc = "save", !.win = w, !.stale = c]]
    BY <2>8, <2>9
  <2> QED
    BY <1>5, <2>10, <2>11
<1> QED
  BY <1>6, <1>7

(* Replacing the state file: it takes a sound window, and a stale verdict  *)
(* becomes a takeover of a tip that sat through the wait.                  *)
LEMMA SaveStep ==
    ASSUME IInv, NEW p \in Runs, Save(p)
    PROVE  IInv'
<1>0. TypeOK /\ RefsInv /\ Sound(store)
  BY DEF IInv
<1>1. PICK s \in Verb : s = run[p]
  BY <1>0 DEF TypeOK
<1>2. VerbInv(s) /\ s.pc = "save"
  BY <1>1 DEF IInv, Save
<1>3. UNCHANGED <<now, refVars, view>> /\ store' \in {s.win, store}
  BY <1>1 DEF Save
<1>4. store' \in Window /\ Sound(store)'
  BY <1>0, <1>2, <1>3 DEF TypeOK, Verb, VerbInv, Sound, refVars
<1>5. Onward /\ RefsInv'
  BY <1>3, StillOnward
<1>6. Idle \in Verb
  BY <1>0, Numbers, IdleVerb
<1>7. CASE ~s.stale
  <2>1. run' = [run EXCEPT ![p] = Idle]
    BY <1>1, <1>7 DEF Save
  <2>2. TypeOK'
    BY <1>3, <1>4, <1>6, <2>1, OwnTypes
  <2> QED
    BY <1>4, <1>5, <2>1, <2>2, EndStep
<1>8. CASE s.stale
  <2> DEFINE r == [Idle EXCEPT !.pc = "take", !.watch = s.win.tip]
  <2>1. s.win \in Window /\ s.win.tip \in Tips /\ s.win.tip # 0 /\ s.win.tip < next
        /\ Span(s.win) > Wait(chain[s.win.tip])
    BY <1>2, <1>8 DEF Verb, Window, VerbInv, Sound
  <2>2. r \in Verb /\ r.pc = "take" /\ r.watch = s.win.tip /\ r.at = 0
        /\ r.win = NoWindow /\ r.stale = FALSE
    BY <1>6, <2>1 DEF Verb, PCs, Idle
  <2>3. run' = [run EXCEPT ![p] = r]
    BY <1>1, <1>8 DEF Save
  <2> HIDE DEF r
  <2>4. TypeOK'
    BY <1>3, <1>4, <2>2, <2>3, OwnTypes
  <2>5. s.win.tip = remote => now - bornAt > Wait(chain[s.win.tip])
    <3>1. SUFFICES ASSUME s.win.tip = remote
                   PROVE  now - bornAt > Wait(chain[s.win.tip])
      OBVIOUS
    <3>2. bornAt <= s.win.first /\ s.win.last <= now
      BY <1>2, <2>1, <3>1 DEF VerbInv, Sound
    <3>3. s.win.first \in Nat /\ s.win.last \in Nat
      BY <2>1 DEF Window, Times
    <3>4. s.win.tip \in TipIds
      BY <1>0, <2>1, Numbers DEF Tips, TipIds
    <3>5. Wait(chain[s.win.tip]) \in Nat
      BY <1>0, <3>4, WaitBounds DEF TypeOK
    <3>6. s.win.last - s.win.first > Wait(chain[s.win.tip])
      BY <2>1 DEF Span
    <3> QED
      BY <1>0, <3>2, <3>3, <3>5, <3>6, Numbers
  <2>6. VerbInv(r)'
    BY <1>0, <1>3, <2>1, <2>2, <2>5, Numbers
       DEF VerbInv, Sound, NoWindow, refVars, Wait
  <2> QED
    BY <1>4, <1>5, <2>3, <2>4, <2>6, VerbStep
<1> QED
  BY <1>7, <1>8

(* The takeover and the beat for the holder move the ref to a new tip.     *)
LEMMA PushStep ==
    ASSUME IInv, NEW p \in Runs, Takeover(p) \/ BeatForHolder(p)
    PROVE  IInv'
<1>0. TypeOK /\ RefsInv
  BY DEF IInv
<1>1. run[p] \in Verb /\ VerbInv(run[p]) /\ run[p].pc = "take"
  BY DEF IInv, TypeOK, Takeover, BeatForHolder
<1>2. run[p].watch \in TipIds
  BY <1>0, <1>1, Numbers DEF VerbInv, Verb, Tips, TipIds
<1>3. chain[run[p].watch] \in Nat /\ chain[run[p].watch] + 1 \in Nat
  BY <1>0, <1>2 DEF TypeOK
<1>4. PICK k \in Nat : MoveTo(k)
  BY <1>3 DEF Takeover, BeatForHolder
<1>5. view' = next /\ run' = [run EXCEPT ![p] = Idle] /\ UNCHANGED <<now, store>>
  BY DEF Takeover, BeatForHolder
<1>6. Idle \in Verb
  BY <1>0, Numbers, IdleVerb
<1>7. TypeOK' /\ Onward /\ RefsInv'
  BY <1>0, <1>4, <1>5, <1>6, MoveOnward DEF TypeOK
<1>8. Sound(store)'
  BY <1>5, <1>7, StoreStays
<1> QED
  BY <1>5, <1>7, <1>8, EndStep

(* A lost takeover, the window it restarts, and a verb that stops.         *)
LEMMA LossStep ==
    ASSUME IInv, NEW p \in Runs, TakeoverLost(p) \/ ResetWindow(p) \/ Stop(p)
    PROVE  IInv'
<1>0. TypeOK /\ RefsInv
  BY DEF IInv
<1>1. UNCHANGED <<now, refVars, view>>
  BY DEF TakeoverLost, ResetWindow, Stop
<1>2. Onward /\ RefsInv'
  BY <1>1, StillOnward
<1>3. Idle \in Verb
  BY <1>0, Numbers, IdleVerb
<1>4. CASE TakeoverLost(p)
  <2>1. PICK v \in Tips : v = remote /\ v < next /\ v # 0
    BY <1>0, <1>4 DEF TypeOK, RefsInv, TakeoverLost
  <2> DEFINE r == [Idle EXCEPT !.pc = "reset", !.watch = v]
  <2>2. r \in Verb /\ r.pc = "reset" /\ r.watch = v /\ r.at = 0
        /\ r.win = NoWindow /\ r.stale = FALSE
    BY <1>3 DEF Verb, PCs, Idle
  <2>3. run' = [run EXCEPT ![p] = r] /\ UNCHANGED store
    BY <1>4, <2>1 DEF TakeoverLost
  <2> HIDE DEF r
  <2>4. TypeOK'
    BY <1>0, <1>1, <2>2, <2>3, OwnTypes DEF TypeOK
  <2>5. Sound(store)'
    BY <1>2, <2>3, <2>4, StoreStays
  <2>6. VerbInv(r)'
    BY <1>0, <1>1, <2>1, <2>2, Numbers DEF VerbInv, Sound, NoWindow, refVars
  <2> QED
    BY <1>2, <2>3, <2>4, <2>5, <2>6, VerbStep
<1>5. CASE ResetWindow(p)
  <2>1. PICK s \in Verb : s = run[p]
    BY <1>0 DEF TypeOK
  <2>2. s.watch \in TipIds /\ s.watch < next
    <3>1. s.watch < next /\ s.watch \in Tips
      BY <2>1 DEF IInv, VerbInv, Verb
    <3>2. s.watch # 0
      BY <1>5, <2>1 DEF ResetWindow, IInv, VerbInv
    <3> QED
      BY <1>0, <3>1, <3>2, Numbers DEF Tips, TipIds
  <2>3. store' = Fresh(s.watch, now) /\ run' = [run EXCEPT ![p] = Idle]
    <3>1. NoWindow.tip # s.watch
      BY <2>2 DEF NoWindow, TipIds
    <3> QED
      BY <1>5, <2>1, <3>1 DEF ResetWindow, Observe
  <2>4. PICK t \in Times : t = now
    BY <1>0 DEF TypeOK
  <2>5. store' \in Window /\ store'.tip = s.watch /\ store'.first = now
        /\ store'.last = now /\ store'.samples = 1
    BY <2>2, <2>3, <2>4, FreshWindow
  <2>6. TypeOK'
    BY <1>1, <1>3, <2>3, <2>5, OwnTypes
  <2>7. Sound(store)'
    BY <1>0, <1>1, <2>2, <2>5, Numbers DEF Sound, Span, refVars, RefsInv
  <2> QED
    BY <1>2, <2>3, <2>6, <2>7, EndStep
<1>6. CASE Stop(p)
  <2>1. run' = [run EXCEPT ![p] = Idle] /\ UNCHANGED store
    BY <1>6 DEF Stop
  <2>2. TypeOK'
    BY <1>0, <1>1, <1>3, <2>1, OwnTypes DEF TypeOK
  <2>3. Sound(store)'
    BY <1>2, <2>1, <2>2, StoreStays
  <2> QED
    BY <1>2, <2>1, <2>2, <2>3, EndStep
<1> QED
  BY <1>4, <1>5, <1>6

(* The invariant holds initially.                                          *)
LEMMA InitIInv == Init => IInv
<1> SUFFICES ASSUME Init PROVE IInv
  OBVIOUS
<1>1. next = 1 /\ now = 0 /\ bornAt = 0 /\ remote = 0 /\ view = 0
  BY DEF Init
<1>2. Idle \in Verb /\ VerbInv(Idle)
  BY <1>1, IdleVerb
<1>3. NoWindow \in Window /\ Sound(NoWindow)
  BY ClockAssumption DEF NoWindow, Window, Sound, Tips, Times
<1>4. TypeOK
  BY <1>1, <1>2, <1>3, ClockAssumption DEF Init, TypeOK, Times, Tips
<1>5. RefsInv
  BY <1>1 DEF RefsInv
<1> QED
  BY <1>2, <1>3, <1>4, <1>5 DEF IInv, Init

(* The inductive invariant of the observer, for any verbs and any clock:   *)
(* every window, stored or about to be, starts after its tip became the    *)
(* remote's, and its span is covered by its looks.                         *)
THEOREM Invariance == Spec => []IInv
<1>1. IInv /\ [Next]_vars => IInv'
  <2> SUFFICES ASSUME IInv, [Next]_vars PROVE IInv'
    OBVIOUS
  <2>1. CASE Next
    BY <2>1, EnvironmentStep, GatherStep, ReadClockStep, FoldStep, SaveStep,
       PushStep, LossStep DEF Next
  <2>2. CASE UNCHANGED vars
    BY <2>2 DEF vars, IInv, TypeOK, RefsInv, VerbInv, Sound, Span, Wait
  <2> QED
    BY <2>1, <2>2
<1> QED
  BY <1>1, InitIInv, PTL DEF Spec

(* A takeover that wins displaces a tip that was the remote's for longer   *)
(* than the backed-off window (mintOrTakeOver).                            *)
THEOREM TakeoverWaits == Spec => TakenAfterWindow
<1>1. IInv /\ [Next]_vars =>
        \A p \in Runs : Takeover(p) => now - bornAt > Wait(chain[remote])
  BY DEF IInv, VerbInv, Takeover
<1> QED
  BY <1>1, Invariance, PTL DEF Spec, TakenAfterWindow

(* A hold is read stale only on enough looks (StaleHold, Observe).         *)
THEOREM StaleNeedsLooks == Spec => []StaleOnManyLooks
<1>1. IInv => StaleOnManyLooks
  <2> SUFFICES ASSUME IInv, NEW p \in Runs, run[p].stale
               PROVE  (run[p].win.samples - 1) * Gap > T
    BY DEF StaleOnManyLooks
  <2>0. TypeOK
    BY DEF IInv
  <2>1. PICK w \in Window : w = run[p].win
    BY <2>0 DEF TypeOK, Verb
  <2>2. /\ w.tip # 0 /\ w.tip < next /\ Span(w) > Wait(chain[w.tip])
        /\ Span(w) <= (w.samples - 1) * Gap
    BY <2>1 DEF IInv, VerbInv, Sound
  <2>3. w.tip \in TipIds
    BY <2>0, <2>2, Numbers DEF Window, Tips, TipIds
  <2>4. Wait(chain[w.tip]) \in Nat /\ Wait(chain[w.tip]) >= T
    BY <2>0, <2>3, WaitBounds DEF TypeOK
  <2>5. Span(w) \in Int /\ (w.samples - 1) * Gap \in Int /\ T \in Int
    BY <2>0, Numbers DEF Span, Window, Times
  <2>6. (w.samples - 1) * Gap > T
    BY <2>2, <2>4, <2>5
  <2> QED
    BY <2>1, <2>6
<1> QED
  BY <1>1, Invariance, PTL
=============================================================================
