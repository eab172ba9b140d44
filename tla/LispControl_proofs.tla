------------------------ MODULE LispControl_proofs -------------------------
(***************************************************************************)
(* catch, throw and dynamic-wind are proved right for every program, every *)
(* set of tags and every size of the two fixed arrays.                     *)
(***************************************************************************)
EXTENDS LispControl, FiniteSetTheorems, FunctionTheorems, SequenceTheorems, WellFoundedInduction, TLAPS

Kinds == {"begin", "catch", "before", "thunk", "after", "throw"}
Frames == [kind : Kinds, n : Nat, saved : Nat \cup Tags]

Catch(k) == k \in DOMAIN stack /\ stack[k].kind = "catch"
Thunk(k) == k \in DOMAIN stack /\ stack[k].kind = "thunk"
Throw(k) == k \in DOMAIN stack /\ stack[k].kind = "throw"
Winding(k) == k \in DOMAIN stack /\ stack[k].kind \in {"before", "thunk"}

-----------------------------------------------------------------------------
(* The inductive invariant *)

\* A frame has the fields its function reads.
FrameOK(f) ==
  /\ f.kind = "throw" => f.saved \in Tags
  /\ f.kind = "catch" => f.saved \in Nat
  /\ f.kind = "thunk" => f.saved \in 0 .. MAX_WIND_DEPTH - 1
  /\ f.kind \in {"before", "thunk"} => f.n \in 1 .. Len(winds)

\* The variables have their types, and the prompt waits for no evaluation.
Shape ==
  /\ mode \in {"idle", "eval", "return"} /\ forms \in 0 .. MaxForms
  /\ stack \in Seq(Frames)
  /\ mode = "idle" => stack = <<>>
  /\ winds \in Seq([entered : BOOLEAN, afters : Nat])
  /\ catch_tags \in [0 .. MAX_CATCH_DEPTH - 1 -> Tags \cup {NoTag}]
  /\ catch_vals \in [0 .. MAX_CATCH_DEPTH - 1 -> Tags \cup {NoTag}]
  /\ catch_depth \in 0 .. MAX_CATCH_DEPTH /\ catch_throwing \in BOOLEAN
  /\ catch_target \in Nat
  /\ wind_after \in [0 .. MAX_WIND_DEPTH - 1 -> 0 .. Len(winds)]
  /\ wind_depth \in 0 .. MAX_WIND_DEPTH
  /\ \A k \in DOMAIN stack : FrameOK(stack[k])

\* The catches on the C stack saved the depths 0, 1, ... catch_depth - 1, in this order.
CatchesInOrder ==
  /\ \A k \in DOMAIN stack : Catch(k) => stack[k].saved \in 0 .. catch_depth - 1
  /\ \A j, k \in DOMAIN stack : j < k /\ Catch(j) /\ Catch(k) => stack[j].saved < stack[k].saved
  /\ \A d \in 0 .. catch_depth - 1 : \E k \in DOMAIN stack : Catch(k) /\ stack[k].saved = d

\* A throw that runs after thunks has its catch below, and so has a throw that unwinds.
ThrowsHaveCatches ==
  /\ \A k \in DOMAIN stack : Throw(k) =>
       /\ \E j \in DOMAIN stack : j < k /\ Catch(j) /\ stack[j].saved = stack[k].n
       /\ catch_tags[stack[k].n] = stack[k].saved
  /\ catch_throwing =>
       /\ \E k \in DOMAIN stack : Catch(k) /\ stack[k].saved = catch_target
       /\ catch_vals[catch_target] = catch_tags[catch_target]

\* Every used slot of the wind stack was pushed for a thunk on the C stack, and
\* what a thunk will restore was in use before it.
WindsAreOpen ==
  /\ \A d \in 0 .. wind_depth - 1 : \E k \in DOMAIN stack : Thunk(k) /\ stack[k].saved = d
  /\ \A k \in DOMAIN stack : Thunk(k) =>
       \A d \in 0 .. stack[k].saved - 1 :
         \E j \in DOMAIN stack : j < k /\ Thunk(j) /\ stack[j].saved = d

ControlInv == Shape /\ CatchesInOrder /\ ThrowsHaveCatches /\ WindsAreOpen

\* The thunk of this frame was entered, and its after thunk was not applied yet.
Owed(k) == winds[stack[k].n].entered /\ winds[stack[k].n].afters = 0

\* Two frames are never of the same dynamic-wind.
OneFrameEach ==
  \A j, k \in DOMAIN stack : Winding(j) /\ Winding(k) /\ j # k => stack[j].n # stack[k].n

\* An after thunk that is owed is in the slot its frame saved, in use, and is
\* covered by no newer one; when the unwinding has begun, none is owed.
OwedIsStacked ==
  /\ \A k \in DOMAIN stack : Thunk(k) /\ Owed(k) =>
       stack[k].saved < wind_depth /\ wind_after[stack[k].saved] = stack[k].n
  /\ \A j, k \in DOMAIN stack : Thunk(j) /\ Thunk(k) /\ j < k /\ Owed(j) =>
       stack[j].saved < stack[k].saved
  /\ catch_throwing => \A k \in DOMAIN stack : Thunk(k) => ~Owed(k)

OwedInv == OneFrameEach /\ OwedIsStacked /\ AfterIsRun
-----------------------------------------------------------------------------
(* Steps on the C stack *)

\* The step leaves the n oldest frames.
Kept(n) ==
  /\ n \in 0 .. Len(stack)
  /\ stack' \in Seq(Frames) /\ Len(stack') = n
  /\ \A k \in 1 .. n : stack'[k] = stack[k]

\* The step leaves the n oldest frames, and a new one on top of them.
Pushed(n, f) ==
  /\ n \in 0 .. Len(stack) /\ f \in Frames
  /\ stack' \in Seq(Frames) /\ Len(stack') = n + 1
  /\ \A k \in 1 .. n : stack'[k] = stack[k]
  /\ stack'[n + 1] = f

\* Front and Last, point by point.
LEMMA StackHasTop ==
  ASSUME stack \in Seq(Frames), stack # <<>>
  PROVE  /\ Len(stack) \in Nat \ {0}
         /\ Top = stack[Len(stack)] /\ Top \in Frames
         /\ Below \in Seq(Frames) /\ Len(Below) = Len(stack) - 1
         /\ \A k \in 1 .. Len(stack) - 1 : Below[k] = stack[k]
  <1>1. Len(stack) \in Nat \ {0} /\ stack[Len(stack)] \in Frames
    OBVIOUS
  <1>2. Below = SubSeq(stack, 1, Len(stack) - 1) /\ Top = stack[Len(stack)]
    BY DEF Top, Below, Last, Front
  <1>3. Len(stack) - 1 \in Int /\ 1 \in Int /\ \A k \in 1 .. Len(stack) - 1 : stack[k] \in Frames
    BY <1>1
  <1>4. /\ SubSeq(stack, 1, Len(stack) - 1) \in Seq(Frames)
        /\ Len(SubSeq(stack, 1, Len(stack) - 1)) = Len(stack) - 1
        /\ \A k \in 1 .. Len(stack) - 1 : SubSeq(stack, 1, Len(stack) - 1)[k] = stack[k]
    <2> DEFINE n == Len(stack) - 1
    <2>1. n \in Nat
      BY <1>1
    <2>2. /\ SubSeq(stack, 1, n) \in Seq(Frames)
          /\ Len(SubSeq(stack, 1, n)) = IF 1 <= n THEN n - 1 + 1 ELSE 0
          /\ \A k \in 1 .. n - 1 + 1 : SubSeq(stack, 1, n)[k] = stack[1 + k - 1]
      <3> HIDE DEF n
      <3> QED
        BY <1>3, SubSeqProperties DEF n
    <2> HIDE DEF n
    <2>3. /\ SubSeq(stack, 1, n) \in Seq(Frames) /\ Len(SubSeq(stack, 1, n)) = n
          /\ \A k \in 1 .. n : SubSeq(stack, 1, n)[k] = stack[k]
      BY <2>1, <2>2
    <2> QED
      BY <2>3 DEF n
  <1> QED
    BY <1>1, <1>2, <1>4

\* What the three shapes of assignment to the stack do.
LEMMA StackSteps ==
  ASSUME stack \in Seq(Frames)
  PROVE  /\ stack' = stack => Kept(Len(stack))
         /\ \A f \in Frames : stack' = Append(stack, f) => Pushed(Len(stack), f)
         /\ stack # <<>> /\ stack' = Below => Kept(Len(stack) - 1)
         /\ \A f \in Frames : stack # <<>> /\ stack' = Append(Below, f) => Pushed(Len(stack) - 1, f)
  <1>1. stack' = stack => Kept(Len(stack))
    BY DEF Kept
  <1>2. ASSUME NEW f \in Frames, stack' = Append(stack, f) PROVE Pushed(Len(stack), f)
    BY <1>2 DEF Pushed
  <1>3. ASSUME stack # <<>>, stack' = Below PROVE Kept(Len(stack) - 1)
    BY <1>3, StackHasTop DEF Kept
  <1>4. ASSUME NEW f \in Frames, stack # <<>>, stack' = Append(Below, f)
        PROVE  Pushed(Len(stack) - 1, f)
    <2> DEFINE b == Below
    <2>1. b \in Seq(Frames) /\ Len(b) = Len(stack) - 1 /\ Len(stack) \in Nat \ {0}
      BY <1>4, StackHasTop
    <2>2. \A k \in 1 .. Len(stack) - 1 : b[k] = stack[k]
      BY <1>4, StackHasTop
    <2>3. stack' = Append(b, f)
      BY <1>4
    <2> HIDE DEF b
    <2> QED
      BY <2>1, <2>2, <2>3 DEF Pushed
  <1> QED
    BY <1>1, <1>2, <1>3, <1>4
\* Frames stay good while the numbers of dynamic-winds grow.
LEMMA FramesStayOK ==
  ASSUME Shape, Len(winds') \in Nat, Len(winds) <= Len(winds'), NEW n \in Nat,
         Kept(n) \/ \E f \in Frames : Pushed(n, f) /\ FrameOK(f)'
  PROVE  /\ stack' \in Seq(Frames) /\ Len(stack') \in Nat /\ DOMAIN stack' = 1 .. Len(stack')
         /\ \A k \in DOMAIN stack' : FrameOK(stack[k])'
  <1>1. /\ stack' \in Seq(Frames) /\ Len(stack') \in Nat /\ DOMAIN stack' = 1 .. Len(stack')
        /\ n \in 0 .. Len(stack)
    BY DEF Kept, Pushed
  <1>2. DOMAIN stack = 1 .. Len(stack) /\ Len(stack) \in Nat /\ Len(winds) \in Nat
    BY DEF Shape
  <1>3. ASSUME NEW k \in 1 .. n, stack'[k] = stack[k] PROVE FrameOK(stack[k])'
    <2>1. FrameOK(stack[k])
      BY <1>1, <1>2 DEF Shape
    <2> QED
      BY <2>1, <1>2, <1>3 DEF FrameOK
  <1>4. CASE Kept(n)
    BY <1>1, <1>3, <1>4 DEF Kept
  <1>5. CASE \E f \in Frames : Pushed(n, f) /\ FrameOK(f)'
    <2>1. PICK f \in Frames : Pushed(n, f) /\ FrameOK(f)'
      BY <1>5
    <2>2. FrameOK(stack[n + 1])'
      BY <2>1 DEF Pushed, FrameOK
    <2>3. \A k \in 1 .. n + 1 : k \in 1 .. n \/ k = n + 1
      OBVIOUS
    <2> QED
      BY <1>1, <1>3, <2>1, <2>2, <2>3 DEF Pushed
  <1> QED
    BY <1>1, <1>4, <1>5

-----------------------------------------------------------------------------
(* The control invariant, action by action *)

\* Between two stacks that hold the same catches and thunks, with the same
\* depths, the order of catches and the open winds carry over.
SameOpen(n) ==
  /\ n \in 0 .. Len(stack)
  /\ \A k \in 1 .. n : stack'[k] = stack[k]
  /\ \A k \in DOMAIN stack : k > n => ~Catch(k) /\ ~Thunk(k)
  /\ n <= Len(stack') /\ \A k \in DOMAIN stack' : k > n => ~Catch(k)' /\ ~Thunk(k)'

LEMMA SameOpenSame ==
  ASSUME Shape, stack' \in Seq(Frames), NEW n \in Nat, SameOpen(n)
  PROVE  /\ \A k \in DOMAIN stack : Catch(k) \/ Thunk(k) => k \in 1 .. n /\ stack'[k] = stack[k]
         /\ \A k \in DOMAIN stack' : Catch(k)' \/ Thunk(k)' => k \in 1 .. n /\ stack'[k] = stack[k]
         /\ \A k : Catch(k)' <=> Catch(k)
         /\ \A k : Thunk(k)' <=> Thunk(k)
  <1>1. /\ DOMAIN stack = 1 .. Len(stack) /\ DOMAIN stack' = 1 .. Len(stack')
        /\ Len(stack) \in Nat /\ Len(stack') \in Nat
    BY DEF Shape
  <1> QED
    BY <1>1 DEF SameOpen, Catch, Thunk

LEMMA SameOpenInv ==
  ASSUME ControlInv, stack' \in Seq(Frames), NEW n \in Nat, SameOpen(n), catch_depth' = catch_depth,
         wind_depth' \in 0 .. wind_depth
  PROVE  CatchesInOrder' /\ WindsAreOpen'
  <1> USE DEF ControlInv
  <1>1. /\ \A k \in DOMAIN stack : Catch(k) \/ Thunk(k) => k \in 1 .. n /\ stack'[k] = stack[k]
        /\ \A k \in DOMAIN stack' : Catch(k)' \/ Thunk(k)' => k \in 1 .. n /\ stack'[k] = stack[k]
        /\ \A k : Catch(k)' <=> Catch(k)
        /\ \A k : Thunk(k)' <=> Thunk(k)
    BY SameOpenSame
  <1>2. \A k : (Catch(k) \/ Thunk(k) => k \in DOMAIN stack) /\ (Catch(k)' \/ Thunk(k)' => k \in DOMAIN stack')
    BY DEF Catch, Thunk
  <1>3. CatchesInOrder'
    BY <1>1, <1>2 DEF CatchesInOrder
  <1>4. wind_depth \in Nat /\ wind_depth' \in Nat /\ wind_depth' <= wind_depth
    <2>1. wind_depth \in 0 .. MAX_WIND_DEPTH
      BY DEF Shape
    <2> QED
      BY <2>1, LispControlAssumption
  <1>5. WindsAreOpen'
    <2>1. ASSUME NEW d \in 0 .. wind_depth' - 1
          PROVE  \E k \in DOMAIN stack' : Thunk(k)' /\ stack'[k].saved = d
      <3>1. d \in 0 .. wind_depth - 1
        <4> DEFINE w == wind_depth'  v == wind_depth
        <4>1. w \in Nat /\ v \in Nat /\ w <= v /\ d \in 0 .. w - 1
          BY <1>4
        <4> HIDE DEF w, v
        <4>2. d \in 0 .. v - 1
          BY <4>1
        <4> QED
          BY <4>2 DEF v
      <3>2. PICK k \in DOMAIN stack : Thunk(k) /\ stack[k].saved = d
        BY <3>1 DEF WindsAreOpen
      <3> QED
        BY <3>2, <1>1, <1>2
    <2>2. ASSUME NEW k \in DOMAIN stack', Thunk(k)', NEW d \in 0 .. stack'[k].saved - 1
          PROVE  \E j \in DOMAIN stack' : j < k /\ Thunk(j)' /\ stack'[j].saved = d
      <3>1. k \in DOMAIN stack /\ Thunk(k) /\ stack'[k] = stack[k]
        BY <1>1, <1>2, <2>2
      <3>2. PICK j \in DOMAIN stack : j < k /\ Thunk(j) /\ stack[j].saved = d
        BY <3>1 DEF WindsAreOpen
      <3> QED
        BY <3>2, <1>1, <1>2
    <2> QED
      BY <2>1, <2>2 DEF WindsAreOpen
  <1> QED
    BY <1>3, <1>5

\* A throw being prepared keeps its catch, one being carried out too.
LEMMA SameOpenThrows ==
  ASSUME ControlInv, stack' \in Seq(Frames), NEW n \in Nat, SameOpen(n),
         \A k \in DOMAIN stack' : k > n => ~Throw(k)', UNCHANGED catches
  PROVE  ThrowsHaveCatches'
  <1> USE DEF ControlInv
  <1>1. /\ \A k \in DOMAIN stack : Catch(k) \/ Thunk(k) => k \in 1 .. n /\ stack'[k] = stack[k]
        /\ \A k : Catch(k)' <=> Catch(k)
    BY SameOpenSame
  <1>2. \A k : (Catch(k) => k \in DOMAIN stack) /\ (Catch(k)' => k \in DOMAIN stack')
    BY DEF Catch
  <1>3. /\ DOMAIN stack = 1 .. Len(stack) /\ DOMAIN stack' = 1 .. Len(stack')
        /\ Len(stack) \in Nat /\ Len(stack') \in Nat
    BY DEF Shape
  <1>4. ASSUME NEW k \in DOMAIN stack', Throw(k)'
        PROVE  /\ \E j \in DOMAIN stack' : j < k /\ Catch(j)' /\ stack'[j].saved = stack'[k].n
               /\ catch_tags'[stack'[k].n] = stack'[k].saved
    <2>1. k \in DOMAIN stack /\ Throw(k) /\ stack'[k] = stack[k]
      BY <1>3, <1>4 DEF Throw, SameOpen
    <2>2. PICK j \in DOMAIN stack : j < k /\ Catch(j) /\ stack[j].saved = stack[k].n
      BY <2>1 DEF ThrowsHaveCatches
    <2> QED
      BY <1>1, <1>2, <2>1, <2>2 DEF ThrowsHaveCatches, catches
  <1>5. ASSUME catch_throwing'
        PROVE  /\ \E k \in DOMAIN stack' : Catch(k)' /\ stack'[k].saved = catch_target'
               /\ catch_vals'[catch_target'] = catch_tags'[catch_target']
    <2>1. PICK k \in DOMAIN stack : Catch(k) /\ stack[k].saved = catch_target
      BY <1>5 DEF ThrowsHaveCatches, catches
    <2> QED
      BY <1>1, <1>2, <1>5, <2>1 DEF ThrowsHaveCatches, catches
  <1> QED
    BY <1>4, <1>5 DEF ThrowsHaveCatches

\* Forms that open nothing: the prompt, an atom, begin, dynamic-wind, a throw
\* without a catch, a form that is refused, and the return to begin or to an
\* after thunk.
LEMMA PlainControl ==
  ASSUME ControlInv,
         \/ repl \/ EvalAtom \/ EvalBegin \/ EvalWind \/ PrintResult \/ UNCHANGED vars
         \/ Return /\ (BeginReturn \/ AfterReturn \/ (BeforeReturn /\ WindFull))
         \/ \E tag \in Tags : EvalThrow(tag) /\ Matching(tag) = {}
         \/ \E tag \in Tags : EvalCatch(tag) /\ catch_depth >= MAX_CATCH_DEPTH
  PROVE  ControlInv'
  <1> USE DEF ControlInv
  <1> DEFINE m == Len(stack)
  <1>0. stack \in Seq(Frames) /\ m \in Nat /\ DOMAIN stack = 1 .. m
    BY DEF Shape
  <1>1. /\ UNCHANGED <<catches, wind_after, wind_depth>>
        /\ mode' \in {"idle", "eval", "return"} /\ forms' \in 0 .. MaxForms
        /\ mode' = "idle" => stack = <<>> /\ stack' = stack
    BY LispControlAssumption
       DEF Shape, repl, EvalAtom, EvalBegin, EvalWind, PrintResult, Return, BeginReturn, AfterReturn,
           BeforeReturn, EvalThrow, EvalCatch, EvalForm, vars
  <1>2. \/ winds' = winds /\ Kept(m)
        \/ winds' = winds /\ \E f \in Frames : f.kind = "begin" /\ Pushed(m, f)
        \/ /\ winds' = Append(winds, [entered |-> FALSE, afters |-> 0])
           /\ \E f \in Frames : f.kind = "before" /\ f.n = Len(winds) + 1 /\ Pushed(m, f)
        \/ winds' = winds /\ m > 0 /\ stack[m].kind \in {"begin", "after", "before"} /\ Kept(m - 1)
    <2>1. Frame("begin", 0, 0) \in Frames /\ Frame("before", Len(winds) + 1, 0) \in Frames
      BY DEF Frame, Frames, Kinds, Shape
    <2>2. CASE stack' = stack /\ winds' = winds
      BY <1>0, <2>2, StackSteps
    <2>3. CASE EvalBegin
      <3>1. Pushed(m, Frame("begin", 0, 0)) /\ winds' = winds
        BY <1>0, <2>1, <2>3, StackSteps DEF EvalBegin
      <3> QED
        BY <2>1, <3>1 DEF Frame
    <2>4. CASE EvalWind
      <3>1. Pushed(m, Frame("before", Len(winds) + 1, 0))
        BY <1>0, <2>1, <2>4, StackSteps DEF EvalWind
      <3>2. winds' = Append(winds, [entered |-> FALSE, afters |-> 0])
        BY <2>4 DEF EvalWind
      <3> QED
        BY <2>1, <3>1, <3>2 DEF Frame
    <2>5. CASE Return /\ (BeginReturn \/ AfterReturn \/ (BeforeReturn /\ WindFull))
      BY <1>0, <2>5, StackSteps, StackHasTop DEF Return, BeginReturn, AfterReturn, BeforeReturn
    <2> QED
      BY <2>2, <2>3, <2>4, <2>5 DEF repl, EvalAtom, PrintResult, EvalThrow, EvalCatch, catches, vars
  <1>3. /\ winds' \in Seq([entered : BOOLEAN, afters : Nat]) /\ Len(winds') \in Nat
        /\ Len(winds) \in Nat /\ Len(winds) <= Len(winds')
        /\ winds' = Append(winds, [entered |-> FALSE, afters |-> 0]) => Len(winds') = Len(winds) + 1
    <2>1. winds \in Seq([entered : BOOLEAN, afters : Nat]) /\ Len(winds) \in Nat
      BY DEF Shape
    <2>2. CASE winds' = winds
      BY <2>1, <2>2 DEF Shape
    <2>3. CASE winds' = Append(winds, [entered |-> FALSE, afters |-> 0])
      <3>1. [entered |-> FALSE, afters |-> 0] \in [entered : BOOLEAN, afters : Nat]
        OBVIOUS
      <3> QED
        BY <2>1, <2>3, <3>1, AppendProperties
    <2> QED
      BY <1>2, <2>2, <2>3
  <1>4. PICK n \in Nat :
          \/ Kept(n) /\ n = m
          \/ Kept(n) /\ n = m - 1 /\ m > 0 /\ stack[m].kind \in {"begin", "after", "before"}
          \/ /\ n = m
             /\ \E f \in Frames : f.kind \in {"begin", "before"} /\ Pushed(n, f) /\ FrameOK(f)'
    <2>1. ASSUME NEW f \in Frames, f.kind = "begin" PROVE FrameOK(f)'
      BY <2>1 DEF FrameOK
    <2>2. ASSUME NEW f \in Frames, f.kind = "before", f.n = Len(winds) + 1,
                 winds' = Append(winds, [entered |-> FALSE, afters |-> 0])
          PROVE  FrameOK(f)'
      <3>1. f.n \in 1 .. Len(winds')
        BY <1>3, <2>2
      <3> QED
        BY <2>2, <3>1 DEF FrameOK
    <2>3. CASE Kept(m)
      BY <1>0, <2>3
    <2>4. CASE m > 0 /\ stack[m].kind \in {"begin", "after", "before"} /\ Kept(m - 1)
      <3>1. m - 1 \in Nat
        BY <1>0, <2>4
      <3> QED
        BY <2>4, <3>1
    <2>5. CASE \E f \in Frames : f.kind \in {"begin", "before"} /\ Pushed(m, f) /\ FrameOK(f)'
      BY <1>0, <2>5
    <2> QED
      BY <1>2, <2>1, <2>2, <2>3, <2>4, <2>5
  <1>5. /\ stack' \in Seq(Frames) /\ Len(stack') \in Nat /\ DOMAIN stack' = 1 .. Len(stack')
        /\ \A k \in DOMAIN stack' : FrameOK(stack[k])'
    BY <1>3, <1>4, FramesStayOK
  <1>9. SameOpen(n) /\ (\A k \in DOMAIN stack' : k > n => ~Throw(k)')
    <2>1. CASE Kept(n) /\ n = m
      BY <1>0, <1>5, <2>1 DEF Kept, SameOpen
    <2>2. CASE Kept(n) /\ n = m - 1 /\ m > 0 /\ stack[m].kind \in {"begin", "after", "before"}
      BY <1>0, <1>5, <2>2 DEF Kept, SameOpen, Catch, Thunk, Throw
    <2>3. ASSUME n = m, NEW f \in Frames, f.kind \in {"begin", "before"}, Pushed(n, f)
          PROVE  SameOpen(n) /\ (\A k \in DOMAIN stack' : k > n => ~Throw(k)')
      BY <1>0, <1>5, <2>3 DEF Pushed, SameOpen, Catch, Thunk, Throw
    <2> QED
      BY <1>4, <2>1, <2>2, <2>3
  <1>6. CatchesInOrder' /\ WindsAreOpen'
    BY <1>1, <1>5, <1>9, SameOpenInv DEF catches, Shape
  <1>7. ThrowsHaveCatches'
    BY <1>1, <1>5, <1>9, SameOpenThrows
  <1>8. /\ wind_after' \in [0 .. MAX_WIND_DEPTH - 1 -> 0 .. Len(winds')]
        /\ catch_tags' = catch_tags /\ catch_vals' = catch_vals /\ catch_depth' = catch_depth
        /\ catch_throwing' = catch_throwing /\ catch_target' = catch_target /\ wind_depth' = wind_depth
        /\ mode' = "idle" => stack' = <<>>
    <2>1. 0 .. Len(winds) \subseteq 0 .. Len(winds')
      BY <1>3
    <2> QED
      BY <1>1, <2>1 DEF Shape, catches
  <1>10. Shape'
    BY <1>1, <1>3, <1>5, <1>8 DEF Shape
  <1> QED
    BY <1>6, <1>7, <1>10

LEMMA RanSame ==
  ASSUME Shape, NEW w
  PROVE  /\ Ran(w) \in Seq([entered : BOOLEAN, afters : Nat]) /\ Len(Ran(w)) = Len(winds)
         /\ \A x \in DOMAIN winds :
              /\ Ran(w)[x].entered = winds[x].entered
              /\ Ran(w)[x].afters = IF x = w /\ ~catch_throwing THEN winds[x].afters + 1
                                                                ELSE winds[x].afters
  <1> DEFINE R == [entered : BOOLEAN, afters : Nat]
  <1>1. winds \in Seq(R) /\ Len(winds) \in Nat /\ DOMAIN winds = 1 .. Len(winds)
    BY DEF Shape
  <1>2. \A x \in DOMAIN winds : winds[x] \in R /\ winds[x].afters \in Nat /\ winds[x].entered \in BOOLEAN
    <2>1. \A x \in 1 .. Len(winds) : winds[x] \in R
      BY <1>1, ElementOfSeq
    <2>2. \A r \in R : r.afters \in Nat /\ r.entered \in BOOLEAN
      OBVIOUS
    <2> QED
      BY <1>1, <2>1, <2>2
  <1>3. CASE catch_throwing
    BY <1>1, <1>3 DEF Ran
  <1>4. CASE ~catch_throwing
    <2> DEFINE r == [winds EXCEPT ![w].afters = @ + 1]
    <2>1. DOMAIN r = 1 .. Len(winds) /\ \A x \in 1 .. Len(winds) : r[x] \in R
      <3>1. ASSUME NEW x \in 1 .. Len(winds)
            PROVE  r[x] = IF x = w THEN [winds[x] EXCEPT !.afters = @ + 1] ELSE winds[x]
        BY <1>1
      <3>2. \A q \in R : [q EXCEPT !.afters = @ + 1] \in R
        OBVIOUS
      <3> QED
        BY <1>1, <1>2, <3>1, <3>2
    <2>2. r \in Seq(R) /\ Len(r) = Len(winds)
      <3>1. r \in [1 .. Len(winds) -> R]
        BY <2>1
      <3> HIDE DEF r
      <3> QED
        BY <3>1, <1>1, <2>1
    <2>3. \A x \in DOMAIN winds :
            /\ r[x].entered = winds[x].entered
            /\ r[x].afters = IF x = w THEN winds[x].afters + 1 ELSE winds[x].afters
      <3>1. ASSUME NEW x \in 1 .. Len(winds)
            PROVE  r[x] = IF x = w THEN [winds[x] EXCEPT !.afters = @ + 1] ELSE winds[x]
        BY <1>1
      <3>2. \A q \in R : LET e == [q EXCEPT !.afters = @ + 1]
                          IN  e.entered = q.entered /\ e.afters = q.afters + 1
        OBVIOUS
      <3> QED
        BY <1>1, <1>2, <3>1, <3>2
    <2>4. Ran(w) = r
      BY <1>4 DEF Ran
    <2> HIDE DEF r
    <2> QED
      BY <1>4, <2>2, <2>3, <2>4
  <1> QED
    BY <1>3, <1>4

\* The n frames that wait for a throw, with or without its own frame.
Rest(n, rest) ==
  \/ n = Len(stack) /\ rest = stack
  \/ stack # <<>> /\ n = Len(stack) - 1 /\ rest = Below /\ Top.kind = "throw"

\* Among them is the catch of this tag that saved this depth.
Aimed(n, i, tag) ==
  /\ \E j \in DOMAIN stack : j <= n /\ Catch(j) /\ stack[j].saved = i
  /\ catch_tags[i] = tag

\* One turn of throw: it runs the newest after thunk, or starts to unwind; its
\* catch is below it.
LEMMA ThrowControl ==
  ASSUME ControlInv, NEW i, NEW tag \in Tags, NEW n \in Nat, NEW rest,
         Rest(n, rest), Aimed(n, i, tag), RunAfterThunks(i, tag, rest), wind_after' = wind_after,
         forms' \in 0 .. MaxForms
  PROVE  ControlInv'
  <1> USE DEF ControlInv
  <1> DEFINE m == Len(stack)
  <1>1. /\ stack \in Seq(Frames) /\ m \in Nat /\ DOMAIN stack = 1 .. m /\ n \in 0 .. m
        /\ wind_depth \in Nat /\ wind_depth \in 0 .. MAX_WIND_DEPTH /\ Len(winds) \in Nat
        /\ \A k \in DOMAIN stack : k > n => stack[k].kind = "throw"
    BY StackHasTop, LispControlAssumption DEF Shape, Rest
  <1>6. \A k \in 1 .. n : k \in DOMAIN stack
    BY <1>1
  <1>2. PICK j \in DOMAIN stack : j <= n /\ Catch(j) /\ stack[j].saved = i
    BY DEF Aimed
  <1>3. i \in Nat /\ i \in 0 .. catch_depth - 1 /\ i \in 0 .. MAX_CATCH_DEPTH - 1
    <2>1. i \in 0 .. catch_depth - 1 /\ catch_depth \in 0 .. MAX_CATCH_DEPTH
      BY <1>2 DEF CatchesInOrder, Shape
    <2> QED
      BY <2>1, LispControlAssumption
  <1>4. CASE wind_depth > 0
    <2> DEFINE w == wind_after[wind_depth - 1]  f == Frame("throw", i, tag)
    <2>1. /\ wind_depth' = wind_depth - 1 /\ winds' = Ran(w) /\ mode' = "eval"
          /\ stack' = Append(rest, f) /\ UNCHANGED catches
      BY <1>4 DEF RunAfterThunks
    <2>2. f \in Frames /\ FrameOK(f) /\ f.kind = "throw" /\ f.n = i /\ f.saved = tag
      BY <1>3 DEF Frame, Frames, Kinds, FrameOK
    <2>3. Pushed(n, f)
      BY <1>1, <2>1, <2>2, StackSteps DEF Rest
    <2>4. winds' \in Seq([entered : BOOLEAN, afters : Nat]) /\ Len(winds') = Len(winds)
      BY <2>1, RanSame
    <2> HIDE DEF f, w
    <2>5. /\ stack' \in Seq(Frames) /\ Len(stack') \in Nat /\ DOMAIN stack' = 1 .. Len(stack')
          /\ \A k \in DOMAIN stack' : FrameOK(stack[k])'
      <3>1. PICK g \in Frames : g = f
        BY <2>2
      <3>2. FrameOK(g)'
        BY <2>2, <3>1 DEF FrameOK
      <3> QED
        BY <1>1, <2>3, <2>4, <3>1, <3>2, FramesStayOK
    <2>51. /\ \A k \in DOMAIN stack' : k \in 1 .. n \/ (k = n + 1 /\ stack'[k] = f)
           /\ \A k \in 1 .. n : k \in Nat /\ k <= n /\ k \in DOMAIN stack' /\ stack'[k] = stack[k]
           /\ n + 1 > n
      BY <2>3, <2>5 DEF Pushed
    <2>6. SameOpen(n)
      <3>1. n \in 0 .. Len(stack) /\ n <= Len(stack')
        <4>1. Len(stack') = n + 1
          BY <2>3 DEF Pushed
        <4> QED
          BY <1>1, <2>5, <4>1
      <3>2. \A k \in DOMAIN stack : k > n => ~Catch(k) /\ ~Thunk(k)
        BY <1>1 DEF Catch, Thunk
      <3>3. \A k \in DOMAIN stack' : k > n => ~Catch(k)' /\ ~Thunk(k)'
        BY <2>2, <2>51 DEF Catch, Thunk
      <3> QED
        BY <2>51, <3>1, <3>2, <3>3 DEF SameOpen
    <2>7. wind_depth' \in 0 .. wind_depth /\ wind_depth' \in 0 .. MAX_WIND_DEPTH
      BY <1>1, <1>4, <2>1, LispControlAssumption
    <2>8. CatchesInOrder' /\ WindsAreOpen'
      BY <2>1, <2>5, <2>6, <2>7, SameOpenInv DEF catches
    <2>9. Shape'
      BY <2>1, <2>4, <2>5, <2>7 DEF Shape, catches
    <2>10. /\ \A k \in DOMAIN stack : Catch(k) \/ Thunk(k) => k \in 1 .. n /\ stack'[k] = stack[k]
           /\ \A k : Catch(k)' <=> Catch(k)
      BY <2>5, <2>6, SameOpenSame
    <2>11. \A k : (Catch(k) => k \in DOMAIN stack) /\ (Catch(k)' => k \in DOMAIN stack')
      BY DEF Catch
    <2>12. ASSUME NEW k \in DOMAIN stack', Throw(k)'
           PROVE  /\ \E l \in DOMAIN stack' : l < k /\ Catch(l)' /\ stack'[l].saved = stack'[k].n
                  /\ catch_tags'[stack'[k].n] = stack'[k].saved
      <3>1. CASE k \in 1 .. n
        <4>1. k \in DOMAIN stack /\ Throw(k) /\ stack'[k] = stack[k]
          BY <1>6, <2>51, <2>12, <3>1 DEF Throw
        <4>2. PICK l \in DOMAIN stack : l < k /\ Catch(l) /\ stack[l].saved = stack[k].n
          BY <4>1 DEF ThrowsHaveCatches
        <4> QED
          BY <2>1, <2>10, <2>11, <4>1, <4>2 DEF ThrowsHaveCatches, catches
      <3>2. CASE k = n + 1 /\ stack'[k] = f
        <4>1. j < k
          BY <1>1, <1>2, <3>2
        <4>2. j \in DOMAIN stack' /\ Catch(j)' /\ stack'[j] = stack[j]
          BY <1>1, <1>2, <2>10, <2>11
        <4> QED
          BY <1>2, <2>1, <2>2, <3>2, <4>1, <4>2 DEF catches, Aimed
      <3> QED
        BY <2>51, <2>12, <3>1, <3>2
    <2>13. ASSUME catch_throwing'
           PROVE  /\ \E k \in DOMAIN stack' : Catch(k)' /\ stack'[k].saved = catch_target'
                  /\ catch_vals'[catch_target'] = catch_tags'[catch_target']
      <3>1. PICK k \in DOMAIN stack : Catch(k) /\ stack[k].saved = catch_target
        BY <2>1, <2>13 DEF ThrowsHaveCatches, catches
      <3> QED
        BY <2>1, <2>10, <2>11, <2>13, <3>1 DEF ThrowsHaveCatches, catches
    <2> QED
      BY <2>8, <2>9, <2>12, <2>13 DEF ThrowsHaveCatches
  <1>5. CASE ~(wind_depth > 0)
    <2>1. /\ stack' = rest /\ mode' = "return" /\ catch_throwing' = TRUE /\ catch_target' = i
          /\ catch_vals' = [catch_vals EXCEPT ![i] = tag]
          /\ UNCHANGED <<catch_tags, catch_depth, wind_depth, winds>>
      BY <1>5 DEF RunAfterThunks
    <2>2. Kept(n)
      BY <1>1, <2>1, StackSteps DEF Rest
    <2>3. /\ stack' \in Seq(Frames) /\ Len(stack') = n /\ DOMAIN stack' = 1 .. Len(stack')
          /\ \A k \in DOMAIN stack' : FrameOK(stack[k])'
      <3>1. Len(winds') \in Nat /\ Len(winds) <= Len(winds')
        BY <1>1, <2>1
      <3> QED
        BY <1>1, <2>2, <3>1, FramesStayOK DEF Kept
    <2>4. SameOpen(n)
      BY <1>1, <2>2, <2>3 DEF SameOpen, Kept, Catch, Thunk
    <2>5. CatchesInOrder' /\ WindsAreOpen'
      <3>1. catch_depth' = catch_depth /\ wind_depth' \in 0 .. wind_depth
        BY <1>1, <2>1
      <3> QED
        BY <2>3, <2>4, <3>1, SameOpenInv
    <2>6. Shape'
      BY <1>3, <2>1, <2>3 DEF Shape
    <2>7. /\ \A k \in DOMAIN stack : Catch(k) \/ Thunk(k) => k \in 1 .. n /\ stack'[k] = stack[k]
          /\ \A k : Catch(k)' <=> Catch(k)
      BY <2>3, <2>4, SameOpenSame
    <2>8. \A k : (Catch(k) => k \in DOMAIN stack) /\ (Catch(k)' => k \in DOMAIN stack')
      BY DEF Catch
    <2>9. ASSUME NEW k \in DOMAIN stack', Throw(k)'
          PROVE  /\ \E l \in DOMAIN stack' : l < k /\ Catch(l)' /\ stack'[l].saved = stack'[k].n
                 /\ catch_tags'[stack'[k].n] = stack'[k].saved
      <3>1. k \in DOMAIN stack /\ Throw(k) /\ stack'[k] = stack[k]
        BY <1>1, <2>2, <2>3, <2>9 DEF Throw, Kept
      <3>2. PICK l \in DOMAIN stack : l < k /\ Catch(l) /\ stack[l].saved = stack[k].n
        BY <3>1 DEF ThrowsHaveCatches
      <3> QED
        BY <2>1, <2>7, <2>8, <3>1, <3>2 DEF ThrowsHaveCatches
    <2>10. /\ \E k \in DOMAIN stack' : Catch(k)' /\ stack'[k].saved = catch_target'
           /\ catch_vals'[catch_target'] = catch_tags'[catch_target']
      <3>1. catch_vals'[i] = tag
        BY <1>3, <2>1 DEF Shape
      <3> QED
        BY <1>2, <2>1, <2>7, <2>8, <3>1 DEF Aimed
    <2> QED
      BY <2>5, <2>6, <2>9, <2>10 DEF ThrowsHaveCatches
  <1> QED
    BY <1>4, <1>5

\* The frames after a step, one by one.
LEMMA PushedPoints ==
  ASSUME stack \in Seq(Frames), NEW n \in Nat, NEW f, Pushed(n, f)
  PROVE  /\ \A k \in DOMAIN stack' : k \in 1 .. n \/ (k = n + 1 /\ stack'[k] = f)
         /\ \A k \in 1 .. n : /\ k \in DOMAIN stack /\ k \in DOMAIN stack' /\ stack'[k] = stack[k]
                            /\ k \in Nat /\ k < n + 1
         /\ n + 1 \in DOMAIN stack' /\ stack'[n + 1] = f
         /\ stack' \in Seq(Frames) /\ DOMAIN stack' = 1 .. n + 1
  BY DEF Pushed

LEMMA KeptPoints ==
  ASSUME stack \in Seq(Frames), NEW n \in Nat, Kept(n)
  PROVE  /\ \A k \in 1 .. n : k \in DOMAIN stack /\ k \in DOMAIN stack' /\ stack'[k] = stack[k] /\ k \in Nat
         /\ stack' \in Seq(Frames) /\ DOMAIN stack' = 1 .. n
  BY DEF Kept

\* catch takes the next depth.
LEMMA CatchOpens ==
  ASSUME ControlInv, NEW tag \in Tags, EvalCatch(tag), ~(catch_depth >= MAX_CATCH_DEPTH)
  PROVE  ControlInv'
  <1> USE DEF ControlInv
  <1>0. PICK m \in Nat, d \in Nat : m = Len(stack) /\ d = catch_depth
    BY LispControlAssumption DEF Shape
  <1>1. PICK f \in Frames : f.kind = "catch" /\ f.saved = d /\ Pushed(m, f)
    <2>1. Frame("catch", 0, d) \in Frames
      BY DEF Frame, Frames, Kinds
    <2>2. stack \in Seq(Frames) /\ stack' = Append(stack, Frame("catch", 0, d))
      BY <1>0 DEF EvalCatch, Shape
    <2>3. Pushed(m, Frame("catch", 0, d))
      BY <1>0, <2>1, <2>2, StackSteps
    <2> QED
      BY <2>1, <2>3 DEF Frame
  <1>2. /\ stack \in Seq(Frames) /\ m \in Nat /\ DOMAIN stack = 1 .. m
        /\ d \in Nat /\ d \in 0 .. MAX_CATCH_DEPTH - 1 /\ d + 1 \in 0 .. MAX_CATCH_DEPTH
    BY <1>0, LispControlAssumption DEF Shape
  <1>3. /\ catch_tags' = [catch_tags EXCEPT ![d] = tag] /\ catch_vals' = [catch_vals EXCEPT ![d] = NoTag]
        /\ catch_depth' = d + 1 /\ ~catch_throwing /\ forms' \in 0 .. MaxForms /\ mode = "eval"
        /\ UNCHANGED <<mode, catch_throwing, catch_target, wind_after, wind_depth, winds>>
    BY <1>0, LispControlAssumption DEF EvalCatch, EvalForm, Shape
  <1>4. /\ \A k \in DOMAIN stack' : k \in 1 .. m \/ (k = m + 1 /\ stack'[k] = f)
        /\ \A k \in 1 .. m : /\ k \in DOMAIN stack /\ k \in DOMAIN stack' /\ stack'[k] = stack[k]
                           /\ k \in Nat /\ k < m + 1
        /\ m + 1 \in DOMAIN stack' /\ stack'[m + 1] = f
        /\ stack' \in Seq(Frames) /\ DOMAIN stack' = 1 .. m + 1
    BY <1>1, <1>2, PushedPoints
  <1>5. Shape'
    <2>1. \A k \in DOMAIN stack' : FrameOK(stack[k])'
      <3>1. FrameOK(f)'
        BY <1>1, <1>2 DEF FrameOK
      <3>2. Len(winds') \in Nat /\ Len(winds) <= Len(winds')
        BY <1>3 DEF Shape
      <3> QED
        BY <1>1, <1>2, <3>1, <3>2, FramesStayOK
    <2> QED
      BY <1>2, <1>3, <1>4, <2>1 DEF Shape
  <1>6. /\ \A k \in 1 .. m : (Catch(k)' <=> Catch(k)) /\ (Thunk(k)' <=> Thunk(k)) /\ (Throw(k)' <=> Throw(k))
        /\ \A k \in DOMAIN stack' : Thunk(k)' \/ Throw(k)' => k \in 1 .. m
        /\ Catch(m + 1)' /\ stack'[m + 1].saved = d
    BY <1>1, <1>4 DEF Catch, Thunk, Throw
  <1>7. \A k \in DOMAIN stack : Catch(k) => stack[k].saved \in Nat /\ stack[k].saved < d
    BY <1>0, <1>2 DEF CatchesInOrder
  <1>8. CatchesInOrder'
    <2>1. \A k \in DOMAIN stack' : Catch(k)' => stack'[k].saved \in 0 .. catch_depth' - 1
      BY <1>1, <1>2, <1>3, <1>4, <1>6, <1>7
    <2>2. \A j, k \in DOMAIN stack' : j < k /\ Catch(j)' /\ Catch(k)' => stack'[j].saved < stack'[k].saved
      BY <1>2, <1>4, <1>6, <1>7 DEF CatchesInOrder
    <2>3. ASSUME NEW e \in 0 .. catch_depth' - 1
          PROVE  \E k \in DOMAIN stack' : Catch(k)' /\ stack'[k].saved = e
      <3>1. e \in 0 .. d - 1 \/ e = d
        BY <1>2, <1>3
      <3>2. CASE e \in 0 .. d - 1
        BY <1>0, <1>2, <1>4, <1>6, <3>2 DEF CatchesInOrder
      <3> QED
        BY <1>4, <1>6, <3>1, <3>2
    <2> QED
      BY <2>1, <2>2, <2>3 DEF CatchesInOrder
  <1>9. ThrowsHaveCatches'
    <2>1. ASSUME NEW k \in DOMAIN stack', Throw(k)'
          PROVE  /\ \E j \in DOMAIN stack' : j < k /\ Catch(j)' /\ stack'[j].saved = stack'[k].n
                 /\ catch_tags'[stack'[k].n] = stack'[k].saved
      <3>1. k \in DOMAIN stack /\ Throw(k) /\ stack'[k] = stack[k]
        BY <1>4, <1>6, <2>1
      <3>2. PICK j \in DOMAIN stack : j < k /\ Catch(j) /\ stack[j].saved = stack[k].n
        BY <3>1 DEF ThrowsHaveCatches
      <3>3. catch_tags'[stack[k].n] = catch_tags[stack[k].n]
        BY <1>2, <1>3, <1>7, <3>2 DEF Shape
      <3>4. j \in DOMAIN stack' /\ Catch(j)' /\ stack'[j] = stack[j]
        BY <1>2, <1>4, <1>6, <3>2
      <3> QED
        BY <3>1, <3>2, <3>3, <3>4 DEF ThrowsHaveCatches
    <2> QED
      BY <1>3, <2>1 DEF ThrowsHaveCatches
  <1>10. WindsAreOpen'
    <2>1. \A e : (\E j \in DOMAIN stack : Thunk(j) /\ stack[j].saved = e)
                 => \E j \in DOMAIN stack' : Thunk(j)' /\ stack'[j].saved = e
      BY <1>2, <1>4, <1>6
    <2>2. ASSUME NEW k \in DOMAIN stack', Thunk(k)', NEW e \in 0 .. stack'[k].saved - 1
          PROVE  \E j \in DOMAIN stack' : j < k /\ Thunk(j)' /\ stack'[j].saved = e
      <3>1. k \in DOMAIN stack /\ Thunk(k) /\ stack'[k] = stack[k]
        BY <1>4, <1>6, <2>2
      <3>2. PICK j \in DOMAIN stack : j < k /\ Thunk(j) /\ stack[j].saved = e
        BY <3>1 DEF WindsAreOpen
      <3> QED
        BY <1>2, <1>4, <1>6, <3>2
    <2> QED
      BY <1>3, <2>1, <2>2 DEF WindsAreOpen
  <1> QED
    BY <1>5, <1>8, <1>9, <1>10

\* The catch that returns is the newest, so the depth it restores is one less.
LEMMA CatchCloses ==
  ASSUME ControlInv, Return, CatchReturn
  PROVE  ControlInv'
  <1> USE DEF ControlInv
  <1>0. PICK m \in Nat, d \in Nat : m + 1 = Len(stack) /\ d = catch_depth
    <2>1. stack # <<>> /\ stack \in Seq(Frames)
      BY DEF Return, Shape
    <2>2. Len(stack) \in Nat \ {0} /\ catch_depth \in Nat
      BY <2>1, StackHasTop, LispControlAssumption DEF Shape
    <2>3. Len(stack) - 1 \in Nat /\ (Len(stack) - 1) + 1 = Len(stack)
      BY <2>2
    <2> QED
      BY <2>2, <2>3
  <1>1. /\ stack \in Seq(Frames) /\ stack # <<>> /\ DOMAIN stack = 1 .. m + 1
        /\ m + 1 \in DOMAIN stack /\ Top = stack[m + 1] /\ m = Len(stack) - 1
    BY <1>0, StackHasTop DEF Shape, Return
  <1>2. PICK s \in Nat : stack[m + 1].saved = s /\ Catch(m + 1) /\ s \in 0 .. d - 1
    BY <1>0, <1>1 DEF CatchReturn, CatchesInOrder, Catch
  <1>3. /\ Kept(m) /\ catch_depth' = s /\ catch_throwing' = (catch_throwing /\ catch_target # s)
        /\ UNCHANGED <<mode, catch_tags, catch_vals, catch_target, wind_after, wind_depth, winds, forms>>
        /\ mode = "return"
    BY <1>1, <1>2, StackSteps DEF Return, CatchReturn, Restored
  <1>4. /\ \A k \in 1 .. m : k \in DOMAIN stack /\ k \in DOMAIN stack' /\ stack'[k] = stack[k] /\ k \in Nat
        /\ stack' \in Seq(Frames) /\ DOMAIN stack' = 1 .. m
    BY <1>1, <1>3, KeptPoints
  <1>5. /\ \A k \in 1 .. m : (Catch(k)' <=> Catch(k)) /\ (Thunk(k)' <=> Thunk(k)) /\ (Throw(k)' <=> Throw(k))
        /\ \A k \in 1 .. m : k < m + 1
        /\ \A k \in DOMAIN stack : k \in 1 .. m \/ k = m + 1
        /\ ~Thunk(m + 1)
    BY <1>1, <1>2, <1>4 DEF Catch, Thunk, Throw
  <1>6. \A k \in 1 .. m : Catch(k) => stack[k].saved \in Nat /\ stack[k].saved < s
    BY <1>0, <1>1, <1>2, <1>4, <1>5 DEF CatchesInOrder
  <1>7. d = s + 1
    <2>1. d - 1 \in 0 .. d - 1
      BY <1>2
    <2>2. PICK k \in DOMAIN stack : Catch(k) /\ stack[k].saved = d - 1
      BY <1>0, <2>1 DEF CatchesInOrder
    <2>3. CASE k \in 1 .. m
      <3>1. d - 1 < s
        BY <1>6, <2>2, <2>3
      <3> QED
        BY <1>2, <3>1
    <2> QED
      BY <1>2, <1>5, <2>2, <2>3
  <1>8. Shape'
    <2>1. \A k \in DOMAIN stack' : FrameOK(stack[k])'
      <3>1. Len(winds') \in Nat /\ Len(winds) <= Len(winds')
        BY <1>3 DEF Shape
      <3> QED
        BY <1>3, <3>1, FramesStayOK
    <2>2. s \in 0 .. MAX_CATCH_DEPTH
      BY <1>0, <1>7, LispControlAssumption DEF Shape
    <2>3. catch_throwing' \in BOOLEAN /\ mode' = "return"
      BY <1>3
    <2> QED
      BY <1>3, <1>4, <2>1, <2>2, <2>3 DEF Shape
  <1>9. CatchesInOrder'
    <2>1. \A k \in DOMAIN stack' : Catch(k)' => stack'[k].saved \in 0 .. catch_depth' - 1
      BY <1>3, <1>4, <1>5, <1>6
    <2>2. \A j, k \in DOMAIN stack' : j < k /\ Catch(j)' /\ Catch(k)' => stack'[j].saved < stack'[k].saved
      BY <1>4, <1>5 DEF CatchesInOrder
    <2>3. ASSUME NEW e \in 0 .. catch_depth' - 1
          PROVE  \E k \in DOMAIN stack' : Catch(k)' /\ stack'[k].saved = e
      <3>1. e \in 0 .. d - 1 /\ e # s
        BY <1>3, <1>7
      <3>2. PICK k \in DOMAIN stack : Catch(k) /\ stack[k].saved = e
        BY <1>0, <3>1 DEF CatchesInOrder
      <3>3. k \in 1 .. m
        BY <1>2, <1>5, <3>1, <3>2
      <3> QED
        BY <1>4, <1>5, <3>2, <3>3
    <2> QED
      BY <2>1, <2>2, <2>3 DEF CatchesInOrder
  <1>10. ThrowsHaveCatches'
    <2>1. ASSUME NEW k \in DOMAIN stack', Throw(k)'
          PROVE  /\ \E j \in DOMAIN stack' : j < k /\ Catch(j)' /\ stack'[j].saved = stack'[k].n
                 /\ catch_tags'[stack'[k].n] = stack'[k].saved
      <3>1. k \in 1 .. m /\ k \in DOMAIN stack /\ Throw(k) /\ stack'[k] = stack[k]
        BY <1>4, <1>5, <2>1
      <3>2. PICK j \in DOMAIN stack : j < k /\ Catch(j) /\ stack[j].saved = stack[k].n
        BY <3>1 DEF ThrowsHaveCatches
      <3>3. j \in 1 .. m
        BY <1>1, <3>1, <3>2
      <3> QED
        BY <1>3, <1>4, <1>5, <3>1, <3>2, <3>3 DEF ThrowsHaveCatches
    <2>2. ASSUME catch_throwing'
          PROVE  /\ \E k \in DOMAIN stack' : Catch(k)' /\ stack'[k].saved = catch_target'
                 /\ catch_vals'[catch_target'] = catch_tags'[catch_target']
      <3>1. catch_throwing /\ catch_target # s
        BY <1>3, <2>2
      <3>2. PICK k \in DOMAIN stack : Catch(k) /\ stack[k].saved = catch_target
        BY <3>1 DEF ThrowsHaveCatches
      <3>3. k \in 1 .. m
        BY <1>2, <1>5, <3>1, <3>2
      <3> QED
        BY <1>3, <1>4, <1>5, <3>1, <3>2, <3>3 DEF ThrowsHaveCatches
    <2> QED
      BY <2>1, <2>2 DEF ThrowsHaveCatches
  <1>11. WindsAreOpen'
    <2>1. \A e : (\E j \in DOMAIN stack : Thunk(j) /\ stack[j].saved = e)
                 => \E j \in DOMAIN stack' : Thunk(j)' /\ stack'[j].saved = e
      BY <1>4, <1>5
    <2>2. ASSUME NEW k \in DOMAIN stack', Thunk(k)', NEW e \in 0 .. stack'[k].saved - 1
          PROVE  \E j \in DOMAIN stack' : j < k /\ Thunk(j)' /\ stack'[j].saved = e
      <3>1. k \in DOMAIN stack /\ Thunk(k) /\ stack'[k] = stack[k]
        BY <1>4, <1>5, <2>2
      <3>2. PICK j \in DOMAIN stack : j < k /\ Thunk(j) /\ stack[j].saved = e
        BY <3>1 DEF WindsAreOpen
      <3> QED
        BY <1>4, <1>5, <3>2
    <2> QED
      BY <1>3, <2>1, <2>2 DEF WindsAreOpen
  <1> QED
    BY <1>8, <1>9, <1>10, <1>11

\* A step that leaves catches and throws where they are keeps what is known of them.
LEMMA SameCatches ==
  ASSUME ControlInv, NEW n \in Nat, UNCHANGED catches,
         \A k \in 1 .. n : k \in DOMAIN stack /\ k \in DOMAIN stack' /\ stack'[k] = stack[k],
         \A k \in DOMAIN stack : k \in 1 .. n \/ ~Catch(k),
         \A k \in DOMAIN stack' : k \in 1 .. n \/ (~Catch(k)' /\ ~Throw(k)')
  PROVE  CatchesInOrder' /\ ThrowsHaveCatches'
  <1> USE DEF ControlInv
  <1>1. \A k \in 1 .. n : (Catch(k)' <=> Catch(k)) /\ (Throw(k)' <=> Throw(k))
    BY DEF Catch, Throw
  <1>2. /\ catch_depth' = catch_depth /\ catch_tags' = catch_tags /\ catch_vals' = catch_vals
        /\ catch_throwing' = catch_throwing /\ catch_target' = catch_target
    BY DEF catches
  <1>3. CatchesInOrder'
    BY <1>1, <1>2 DEF CatchesInOrder
  <1>4. ASSUME NEW k \in DOMAIN stack', Throw(k)'
        PROVE  /\ \E j \in DOMAIN stack' : j < k /\ Catch(j)' /\ stack'[j].saved = stack'[k].n
               /\ catch_tags'[stack'[k].n] = stack'[k].saved
    <2>1. k \in 1 .. n /\ k \in DOMAIN stack /\ Throw(k) /\ stack'[k] = stack[k]
      BY <1>1, <1>4
    <2>2. PICK j \in DOMAIN stack : j < k /\ Catch(j) /\ stack[j].saved = stack[k].n
      BY <2>1 DEF ThrowsHaveCatches
    <2> QED
      BY <1>1, <1>2, <2>1, <2>2 DEF ThrowsHaveCatches
  <1> QED
    BY <1>1, <1>2, <1>3, <1>4 DEF ThrowsHaveCatches

\* What there is to know of a step whose newest frame gets a value.
LEMMA ReturnTakesTop ==
  ASSUME ControlInv, Return
  PROVE  \E m \in Nat :
           /\ m + 1 = Len(stack) /\ m = Len(stack) - 1
           /\ stack \in Seq(Frames) /\ stack # <<>> /\ DOMAIN stack = 1 .. m + 1
           /\ m + 1 \in DOMAIN stack /\ Top = stack[m + 1] /\ Top \in Frames /\ FrameOK(Top)
           /\ \A k \in 1 .. m : k \in DOMAIN stack /\ k \in Nat /\ k < m + 1
           /\ \A k \in DOMAIN stack : k \in 1 .. m \/ k = m + 1
  <1>1. stack # <<>> /\ stack \in Seq(Frames)
    BY DEF Return, ControlInv, Shape
  <1>2. Len(stack) \in Nat \ {0} /\ Top = stack[Len(stack)] /\ Top \in Frames
    BY <1>1, StackHasTop
  <1>3. PICK m \in Nat : m + 1 = Len(stack) /\ m = Len(stack) - 1
    <2>1. Len(stack) - 1 \in Nat /\ (Len(stack) - 1) + 1 = Len(stack)
      BY <1>2
    <2> QED
      BY <2>1
  <1>4. DOMAIN stack = 1 .. m + 1
    BY <1>1, <1>3
  <1>5. m + 1 \in DOMAIN stack /\ Top = stack[m + 1]
    BY <1>2, <1>3, <1>4
  <1>6. FrameOK(Top)
    BY <1>5 DEF ControlInv, Shape
  <1>7. /\ \A k \in 1 .. m : k \in DOMAIN stack /\ k \in Nat /\ k < m + 1
        /\ \A k \in DOMAIN stack : k \in 1 .. m \/ k = m + 1
    BY <1>4
  <1> QED
    BY <1>1, <1>2, <1>3, <1>4, <1>5, <1>6, <1>7

LEMMA EnteredSame ==
  ASSUME Shape, NEW w, NEW b \in BOOLEAN
  PROVE  /\ [winds EXCEPT ![w].entered = b] \in Seq([entered : BOOLEAN, afters : Nat])
         /\ Len([winds EXCEPT ![w].entered = b]) = Len(winds)
         /\ \A x \in DOMAIN winds :
              /\ [winds EXCEPT ![w].entered = b][x].entered = IF x = w THEN b ELSE winds[x].entered
              /\ [winds EXCEPT ![w].entered = b][x].afters = winds[x].afters
  <1> DEFINE R == [entered : BOOLEAN, afters : Nat]
             r == [winds EXCEPT ![w].entered = b]
  <1>1. winds \in Seq(R) /\ Len(winds) \in Nat /\ DOMAIN winds = 1 .. Len(winds)
    BY DEF Shape
  <1>2. \A x \in DOMAIN winds : winds[x] \in R
    BY <1>1, ElementOfSeq
  <1>3. ASSUME NEW x \in DOMAIN winds
        PROVE  r[x] = IF x = w THEN [winds[x] EXCEPT !.entered = b] ELSE winds[x]
    BY <1>3
  <1>4. \A q \in R : LET e == [q EXCEPT !.entered = b]
                      IN  e \in R /\ e.entered = b /\ e.afters = q.afters
    OBVIOUS
  <1>5. /\ DOMAIN r = 1 .. Len(winds) /\ \A x \in 1 .. Len(winds) : r[x] \in R
        /\ \A x \in DOMAIN winds : /\ r[x].entered = IF x = w THEN b ELSE winds[x].entered
                                 /\ r[x].afters = winds[x].afters
    BY <1>1, <1>2, <1>3, <1>4
  <1>6. r \in Seq(R) /\ Len(r) = Len(winds)
    <2>1. r \in [1 .. Len(winds) -> R]
      BY <1>5
    <2> HIDE DEF r
    <2> QED
      BY <1>1, <1>5, <2>1
  <1> QED
    BY <1>5, <1>6

\* before has returned: the thunk saves the depth its after thunk is stored at.
LEMMA ThunkStarts ==
  ASSUME ControlInv, Return, BeforeReturn, ~WindFull
  PROVE  ControlInv'
  <1> USE DEF ControlInv
  <1>1. PICK m \in Nat :
           /\ m + 1 = Len(stack) /\ m = Len(stack) - 1
           /\ stack \in Seq(Frames) /\ stack # <<>> /\ DOMAIN stack = 1 .. m + 1
           /\ m + 1 \in DOMAIN stack /\ Top = stack[m + 1] /\ Top \in Frames /\ FrameOK(Top)
           /\ \A k \in 1 .. m : k \in DOMAIN stack /\ k \in Nat /\ k < m + 1
           /\ \A k \in DOMAIN stack : k \in 1 .. m \/ k = m + 1
    BY ReturnTakesTop
  <1>2. PICK d \in Nat : d = wind_depth /\ d \in 0 .. MAX_WIND_DEPTH - 1
    BY LispControlAssumption DEF Shape, WindFull
  <1>3. Top.kind = "before" /\ Top.n \in 1 .. Len(winds) /\ Len(winds) \in Nat /\ Top.n \in Nat
    BY <1>1 DEF BeforeReturn, FrameOK, Shape
  <1>4. PICK f \in Frames : f.kind = "thunk" /\ f.n = Top.n /\ f.saved = d /\ Pushed(m, f)
    <2>1. PICK f \in Frames : f = Frame("thunk", Top.n, d)
      BY <1>2, <1>3 DEF Frame, Frames, Kinds
    <2>2. stack' = Append(Below, f)
      BY <1>2, <2>1 DEF BeforeReturn
    <2> QED
      BY <1>1, <2>1, <2>2, StackSteps DEF Frame
  <1>5. /\ \A k \in DOMAIN stack' : k \in 1 .. m \/ (k = m + 1 /\ stack'[k] = f)
        /\ \A k \in 1 .. m : /\ k \in DOMAIN stack /\ k \in DOMAIN stack' /\ stack'[k] = stack[k]
                           /\ k \in Nat /\ k < m + 1
        /\ m + 1 \in DOMAIN stack' /\ stack'[m + 1] = f
        /\ stack' \in Seq(Frames) /\ DOMAIN stack' = 1 .. m + 1
    BY <1>1, <1>4, PushedPoints
  <1>6. /\ wind_depth' = d + 1 /\ mode' = "eval" /\ UNCHANGED catches /\ forms' = forms
        /\ winds' = [winds EXCEPT ![Top.n].entered = ~catch_throwing]
        /\ wind_after' = [i \in DOMAIN wind_after \cup {d} |-> IF i = d THEN Top.n ELSE wind_after[i]]
    BY <1>2 DEF BeforeReturn, Return
  <1>7. winds' \in Seq([entered : BOOLEAN, afters : Nat]) /\ Len(winds') = Len(winds)
    BY <1>6, EnteredSame DEF Shape
  <1>8. wind_after' \in [0 .. MAX_WIND_DEPTH - 1 -> 0 .. Len(winds')]
    <2>1. DOMAIN wind_after \cup {d} = 0 .. MAX_WIND_DEPTH - 1
      BY <1>2 DEF Shape
    <2>2. Top.n \in 0 .. Len(winds)
      BY <1>3
    <2> QED
      BY <1>6, <1>7, <2>1, <2>2 DEF Shape
  <1>9. Shape'
    <2>1. \A k \in DOMAIN stack' : FrameOK(stack[k])'
      <3>1. FrameOK(f)'
        BY <1>2, <1>3, <1>4, <1>7 DEF FrameOK
      <3>2. Len(winds') \in Nat /\ Len(winds) <= Len(winds')
        BY <1>3, <1>7
      <3> QED
        BY <1>4, <3>1, <3>2, FramesStayOK
    <2>2. d + 1 \in 0 .. MAX_WIND_DEPTH
      BY <1>2, LispControlAssumption
    <2> QED
      BY <1>5, <1>6, <1>7, <1>8, <2>1, <2>2 DEF Shape, catches
  <1>10. /\ \A k \in 1 .. m : Thunk(k)' <=> Thunk(k)
         /\ Thunk(m + 1)'
         /\ \A k \in DOMAIN stack : Thunk(k) => k \in 1 .. m
    BY <1>1, <1>3, <1>4, <1>5 DEF Thunk
  <1>11. CatchesInOrder' /\ ThrowsHaveCatches'
    <2>1. \A k \in DOMAIN stack : k \in 1 .. m \/ ~Catch(k)
      BY <1>1, <1>3 DEF Catch
    <2>2. \A k \in DOMAIN stack' : k \in 1 .. m \/ (~Catch(k)' /\ ~Throw(k)')
      BY <1>4, <1>5 DEF Catch, Throw
    <2> QED
      BY <1>5, <1>6, <2>1, <2>2, SameCatches
  <1>12. WindsAreOpen'
    <2>1. ASSUME NEW e \in 0 .. d - 1
          PROVE  \E j \in DOMAIN stack' : j \in 1 .. m /\ Thunk(j)' /\ stack'[j].saved = e
      <3>1. PICK j \in DOMAIN stack : Thunk(j) /\ stack[j].saved = e
        BY <1>2, <2>1 DEF WindsAreOpen
      <3> QED
        BY <1>5, <1>10, <3>1
    <2>2. ASSUME NEW e \in 0 .. wind_depth' - 1
          PROVE  \E k \in DOMAIN stack' : Thunk(k)' /\ stack'[k].saved = e
      <3>1. e \in 0 .. d - 1 \/ e = d
        BY <1>6
      <3> QED
        BY <1>4, <1>5, <1>10, <2>1, <3>1
    <2>3. ASSUME NEW k \in DOMAIN stack', Thunk(k)', NEW e \in 0 .. stack'[k].saved - 1
          PROVE  \E j \in DOMAIN stack' : j < k /\ Thunk(j)' /\ stack'[j].saved = e
      <3>1. CASE k \in 1 .. m
        <4>1. k \in DOMAIN stack /\ Thunk(k) /\ stack'[k] = stack[k]
          BY <1>5, <1>10, <2>3, <3>1
        <4>2. PICK j \in DOMAIN stack : j < k /\ Thunk(j) /\ stack[j].saved = e
          BY <4>1 DEF WindsAreOpen
        <4> QED
          BY <1>5, <1>10, <4>2
      <3>2. CASE k = m + 1
        BY <1>4, <1>5, <2>1, <3>2
      <3> QED
        BY <1>5, <3>1, <3>2
    <2> QED
      BY <2>2, <2>3 DEF WindsAreOpen
  <1> QED
    BY <1>9, <1>11, <1>12

\* A thunk has returned, normally or by a throw: the depth it saved comes back.
LEMMA ThunkEnds ==
  ASSUME ControlInv, Return, ThunkReturn
  PROVE  ControlInv'
  <1> USE DEF ControlInv
  <1>1. PICK m \in Nat :
           /\ m + 1 = Len(stack) /\ m = Len(stack) - 1
           /\ stack \in Seq(Frames) /\ stack # <<>> /\ DOMAIN stack = 1 .. m + 1
           /\ m + 1 \in DOMAIN stack /\ Top = stack[m + 1] /\ Top \in Frames /\ FrameOK(Top)
           /\ \A k \in 1 .. m : k \in DOMAIN stack /\ k \in Nat /\ k < m + 1
           /\ \A k \in DOMAIN stack : k \in 1 .. m \/ k = m + 1
    BY ReturnTakesTop
  <1>2. PICK d \in Nat : d = Top.saved /\ d \in 0 .. MAX_WIND_DEPTH - 1 /\ Top.kind = "thunk" /\ Thunk(m + 1)
    BY <1>1, LispControlAssumption DEF ThunkReturn, FrameOK, Thunk
  <1>3. /\ wind_depth' = d /\ UNCHANGED <<catches, wind_after, forms>> /\ mode' \in {"return", "eval"}
        /\ winds' \in Seq([entered : BOOLEAN, afters : Nat]) /\ Len(winds') = Len(winds) /\ Len(winds) \in Nat
    BY <1>2, RanSame DEF ThunkReturn, Return, Shape, Unwound
  <1>4. Kept(m) \/ \E f \in Frames : f.kind = "after" /\ Pushed(m, f)
    <2>1. PICK f \in Frames : f = Frame("after", Top.n, 0)
      BY <1>1 DEF Frame, Frames, Kinds
    <2>2. stack' = Below \/ stack' = Append(Below, f)
      BY <2>1 DEF ThunkReturn
    <2> QED
      BY <1>1, <2>1, <2>2, StackSteps DEF Frame
  <1>5. /\ \A k \in 1 .. m : k \in DOMAIN stack /\ k \in DOMAIN stack' /\ stack'[k] = stack[k]
        /\ \A k \in DOMAIN stack' : k \in 1 .. m \/ (k = m + 1 /\ stack'[k].kind = "after")
        /\ stack' \in Seq(Frames)
    <2>1. CASE Kept(m)
      BY <1>1, <2>1, KeptPoints
    <2>2. ASSUME NEW f \in Frames, f.kind = "after", Pushed(m, f)
          PROVE  /\ \A k \in 1 .. m : k \in DOMAIN stack /\ k \in DOMAIN stack' /\ stack'[k] = stack[k]
                 /\ \A k \in DOMAIN stack' : k \in 1 .. m \/ (k = m + 1 /\ stack'[k].kind = "after")
                 /\ stack' \in Seq(Frames)
      BY <1>1, <2>2, PushedPoints
    <2> QED
      BY <1>4, <2>1, <2>2
  <1>6. Shape'
    <2>1. \A f \in Frames : f.kind = "after" => FrameOK(f)'
      BY DEF FrameOK
    <2>2. \A k \in DOMAIN stack' : FrameOK(stack[k])'
      BY <1>3, <1>4, <2>1, FramesStayOK
    <2>3. d \in 0 .. MAX_WIND_DEPTH
      BY <1>2, LispControlAssumption
    <2> QED
      BY <1>3, <1>5, <2>2, <2>3 DEF Shape, catches
  <1>7. CatchesInOrder' /\ ThrowsHaveCatches'
    <2>1. \A k \in DOMAIN stack : k \in 1 .. m \/ ~Catch(k)
      BY <1>1, <1>2 DEF Catch
    <2>2. \A k \in DOMAIN stack' : k \in 1 .. m \/ (~Catch(k)' /\ ~Throw(k)')
      BY <1>5 DEF Catch, Throw
    <2> QED
      BY <1>3, <1>5, <2>1, <2>2, SameCatches
  <1>8. /\ \A k \in 1 .. m : Thunk(k)' <=> Thunk(k)
        /\ \A k \in DOMAIN stack' : Thunk(k)' => k \in 1 .. m
    BY <1>5 DEF Thunk
  <1>9. WindsAreOpen'
    <2>1. ASSUME NEW k \in DOMAIN stack, Thunk(k), NEW e \in 0 .. stack[k].saved - 1
          PROVE  \E j \in 1 .. m : j < k /\ Thunk(j)' /\ stack'[j].saved = e
      <3>1. PICK j \in DOMAIN stack : j < k /\ Thunk(j) /\ stack[j].saved = e
        BY <2>1 DEF WindsAreOpen
      <3>2. j \in 1 .. m
        BY <1>1, <3>1
      <3> QED
        BY <1>5, <1>8, <3>1, <3>2
    <2>2. ASSUME NEW e \in 0 .. wind_depth' - 1
          PROVE  \E k \in DOMAIN stack' : Thunk(k)' /\ stack'[k].saved = e
      <3>1. e \in 0 .. stack[m + 1].saved - 1
        BY <1>1, <1>2, <1>3
      <3> QED
        BY <1>1, <1>2, <1>5, <2>1, <3>1
    <2>3. ASSUME NEW k \in DOMAIN stack', Thunk(k)', NEW e \in 0 .. stack'[k].saved - 1
          PROVE  \E j \in DOMAIN stack' : j < k /\ Thunk(j)' /\ stack'[j].saved = e
      <3>1. k \in DOMAIN stack /\ Thunk(k) /\ stack'[k] = stack[k]
        BY <1>5, <1>8, <2>3
      <3> QED
        BY <1>5, <2>1, <3>1
    <2> QED
      BY <2>2, <2>3 DEF WindsAreOpen
  <1> QED
    BY <1>6, <1>7, <1>9

\* The catch a throw goes to is one of the catches with its tag.
LEMMA NewestIsOne ==
  ASSUME ControlInv, NEW tag \in Tags, Matching(tag) # {}
  PROVE  Newest(Matching(tag)) \in Matching(tag)
  <1> DEFINE M == Matching(tag)
  <1>0. PICK d \in Nat : d = catch_depth
    BY LispControlAssumption DEF ControlInv, Shape
  <1>1. M \subseteq 0 .. d - 1 /\ M # {}
    BY <1>0 DEF Matching
  <1> HIDE DEF M
  <1> DEFINE T == {d - i : i \in M}
  <1>2. T \subseteq Nat /\ T # {}
    <2>1. \A i \in M : d - i \in Nat
      BY <1>1
    <2> QED
      BY <1>1, <2>1
  <1>3. PICK x \in T : \A y \in T : x <= y
    <2>1. IsWellFoundedOn(OpToRel(<, Nat), Nat)
      BY NatLessThanWellFounded
    <2> HIDE DEF T
    <2>2. PICK x \in T : \A y \in T : ~(<<y, x>> \in OpToRel(<, Nat))
      BY <1>2, <2>1, WFMin
    <2>3. \A y \in T : ~(y < x)
      BY <1>2, <2>2 DEF OpToRel
    <2> QED
      BY <1>2, <2>3
  <1>4. PICK i \in M : x = d - i
    BY <1>3
  <1>5. ASSUME NEW j \in M PROVE j <= i
    <2>1. d - i <= d - j
      BY <1>3, <1>4
    <2>2. i \in Nat /\ j \in Nat
      BY <1>1
    <2> QED
      BY <2>1, <2>2
  <1>6. Newest(M) \in M
    BY <1>4, <1>5 DEF Newest
  <1> QED
    BY <1>6 DEF M

LEMMA ControlStep == ControlInv /\ [Next]_vars => ControlInv'
  <1> SUFFICES ASSUME ControlInv, [Next]_vars PROVE ControlInv'
    OBVIOUS
  <1>1. CASE repl \/ EvalAtom \/ EvalBegin \/ EvalWind \/ PrintResult \/ UNCHANGED vars
    BY <1>1, PlainControl
  <1>2. ASSUME NEW tag \in Tags, EvalCatch(tag) PROVE ControlInv'
    <2>1. CASE catch_depth >= MAX_CATCH_DEPTH
      BY <1>2, <2>1, PlainControl
    <2>2. CASE ~(catch_depth >= MAX_CATCH_DEPTH)
      BY <1>2, <2>2, CatchOpens
    <2> QED
      BY <2>1, <2>2
  <1>3. ASSUME NEW tag \in Tags, EvalThrow(tag) PROVE ControlInv'
    <2>1. CASE Matching(tag) = {}
      BY <1>3, <2>1, PlainControl
    <2>2. CASE Matching(tag) # {}
      <3>1. PICK i \in Matching(tag) : i = Newest(Matching(tag))
        BY <2>2, NewestIsOne
      <3>2. RunAfterThunks(i, tag, stack) /\ wind_after' = wind_after /\ forms' \in 0 .. MaxForms
        BY <1>3, <2>2, <3>1, LispControlAssumption DEF EvalThrow, EvalForm, ControlInv, Shape
      <3>3. PICK n \in Nat : n = Len(stack)
        BY DEF ControlInv, Shape
      <3>4. Aimed(n, i, tag)
        <4>1. i \in 0 .. catch_depth - 1 /\ catch_tags[i] = tag
          BY <3>1 DEF Matching
        <4>2. PICK j \in DOMAIN stack : Catch(j) /\ stack[j].saved = i
          BY <4>1 DEF ControlInv, CatchesInOrder
        <4>3. j <= n
          BY <3>3 DEF ControlInv, Shape
        <4> QED
          BY <4>1, <4>2, <4>3 DEF Aimed
      <3>5. Rest(n, stack)
        BY <3>3 DEF Rest
      <3> QED
        BY <3>2, <3>4, <3>5, ThrowControl
    <2> QED
      BY <2>1, <2>2
  <1>4. CASE Return
    <2>1. CASE BeginReturn \/ AfterReturn
      BY <1>4, <2>1, PlainControl
    <2>2. CASE CatchReturn
      BY <1>4, <2>2, CatchCloses
    <2>3. CASE BeforeReturn
      BY <1>4, <2>3, PlainControl, ThunkStarts
    <2>4. CASE ThunkReturn
      BY <1>4, <2>4, ThunkEnds
    <2>5. CASE ThrowGoesOn
      <3>1. PICK m \in Nat :
               /\ m = Len(stack) - 1 /\ stack # <<>> /\ m + 1 \in DOMAIN stack /\ Top = stack[m + 1]
               /\ Top \in Frames /\ FrameOK(Top) /\ DOMAIN stack = 1 .. m + 1
        BY <1>4, ReturnTakesTop
      <3>2. Throw(m + 1) /\ Top.saved \in Tags
        BY <2>5, <3>1 DEF ThrowGoesOn, Throw, FrameOK
      <3>3. Aimed(m, Top.n, Top.saved)
        <4>1. PICK j \in DOMAIN stack : j < m + 1 /\ Catch(j) /\ stack[j].saved = Top.n
          BY <3>1, <3>2 DEF ControlInv, ThrowsHaveCatches
        <4>2. j <= m
          BY <3>1, <4>1
        <4>3. catch_tags[Top.n] = Top.saved
          BY <3>1, <3>2 DEF ControlInv, ThrowsHaveCatches
        <4> QED
          BY <4>1, <4>2, <4>3 DEF Aimed
      <3>4. RunAfterThunks(Top.n, Top.saved, Below) /\ wind_after' = wind_after /\ forms' \in 0 .. MaxForms
        BY <1>4, <2>5 DEF ThrowGoesOn, Return, ControlInv, Shape
      <3>5. Rest(m, Below)
        BY <2>5, <3>1 DEF Rest, ThrowGoesOn
      <3> QED
        BY <3>2, <3>3, <3>4, <3>5, ThrowControl
    <2> QED
      BY <1>4, <2>1, <2>2, <2>3, <2>4, <2>5 DEF Return
  <1> QED
    BY <1>1, <1>2, <1>3, <1>4 DEF Next

LEMMA ControlStarts == Init => ControlInv
  <1> SUFFICES ASSUME Init PROVE ControlInv
    OBVIOUS
  <1>1. Shape
    <2>1. /\ mode = "idle" /\ stack = <<>> /\ winds = <<>> /\ forms = 0 /\ catch_depth = 0 /\ wind_depth = 0
          /\ catch_throwing = FALSE /\ catch_target = 0
          /\ catch_tags \in [0 .. MAX_CATCH_DEPTH - 1 -> Tags \cup {NoTag}] /\ catch_vals = catch_tags
      BY DEF Init
    <2>2. Len(winds) = 0 /\ wind_after \in [0 .. MAX_WIND_DEPTH - 1 -> 0 .. 0]
      BY DEF Init
    <2>3. stack \in Seq(Frames) /\ DOMAIN stack = {} /\ winds \in Seq([entered : BOOLEAN, afters : Nat])
      BY <2>1
    <2>4. 0 \in 0 .. MaxForms /\ 0 \in 0 .. MAX_CATCH_DEPTH /\ 0 \in 0 .. MAX_WIND_DEPTH
      BY LispControlAssumption
    <2> QED
      BY <2>1, <2>2, <2>3, <2>4 DEF Shape
  <1>2. CatchesInOrder /\ ThrowsHaveCatches /\ WindsAreOpen
    BY DEF Init, CatchesInOrder, ThrowsHaveCatches, WindsAreOpen
  <1> QED
    BY <1>1, <1>2 DEF ControlInv

\* The catches saved different depths, one for each depth in use.
LEMMA DepthCountsCatches == ControlInv => CatchDepthIsCurrent
  <1> SUFFICES ASSUME ControlInv PROVE catch_depth = Count("catch")
    BY DEF CatchDepthIsCurrent
  <1> DEFINE C == {k \in DOMAIN stack : stack[k].kind = "catch"}
  <1>1. PICK d \in Nat : d = catch_depth
    BY LispControlAssumption DEF ControlInv, Shape
  <1>2. /\ \A k \in C : k \in Nat /\ Catch(k) /\ stack[k].saved \in 0 .. d - 1
        /\ \A k : Catch(k) => k \in C
        /\ DOMAIN stack \subseteq Nat
    BY <1>1 DEF ControlInv, Shape, CatchesInOrder, Catch
  <1>3. \A j, k \in C : j # k => stack[j].saved # stack[k].saved
    <2>1. ASSUME NEW j \in C, NEW k \in C, j < k PROVE stack[j].saved < stack[k].saved
      BY <1>2, <2>1 DEF ControlInv, CatchesInOrder
    <2>2. \A j, k \in C : j # k => j < k \/ k < j
      BY <1>2
    <2> QED
      BY <1>2, <2>1, <2>2
  <1>4. \A e \in 0 .. d - 1 : \E k \in C : stack[k].saved = e
    BY <1>1, <1>2 DEF ControlInv, CatchesInOrder
  <1> DEFINE f == [k \in C |-> stack[k].saved]
  <1> HIDE DEF C
  <1>5. f \in Bijection(C, 0 .. d - 1)
    <2>1. f \in [C -> 0 .. d - 1] /\ \A k \in C : f[k] = stack[k].saved
      BY <1>2
    <2> HIDE DEF f
    <2>2. \A j, k \in C : f[j] = f[k] => j = k
      BY <1>3, <2>1
    <2>3. \A e \in 0 .. d - 1 : \E k \in C : f[k] = e
      BY <1>4, <2>1
    <2> QED
      BY <2>1, <2>2, <2>3, Fun_IsBij
  <1>6. ExistsBijection(C, 0 .. d - 1)
    BY <1>5, Fun_ExistsBij
  <1>7. IsFiniteSet(0 .. d - 1) /\ Cardinality(0 .. d - 1) = d
    <2>1. 0 \in Int /\ d - 1 \in Int
      OBVIOUS
    <2> QED
      BY <2>1, FS_Interval
  <1>8. Cardinality(C) = Cardinality(0 .. d - 1)
    BY <1>6, <1>7, FS_Bijection, Fun_ExistsBijSymmetric
  <1> QED
    BY <1>1, <1>7, <1>8 DEF Count, C

THEOREM ControlInvariant == Spec => []ControlInv
  BY ControlStarts, ControlStep, PTL DEF Spec

\* eval.h, eval_catch and eval_dynamic_wind: nothing is stored outside of the two
\* arrays, and catch_depth is the number of catches being evaluated.
THEOREM StacksCorrect == Spec => []StacksOK
  <1>1. ControlInv => StacksOK
    <2> SUFFICES ASSUME ControlInv PROVE TypeOK
      BY DepthCountsCatches DEF StacksOK
    <2>1. \A k \in DOMAIN stack : stack[k].kind \in {"begin", "catch", "before", "thunk", "after", "throw"}
      <3>1. \A k \in DOMAIN stack : stack[k] \in Frames
        BY DEF ControlInv, Shape
      <3> QED
        BY <3>1 DEF Frames, Kinds
    <2> QED
      BY <2>1 DEF ControlInv, Shape, TypeOK
  <1> QED
    BY <1>1, ControlInvariant, PTL

\* eval.h, eval_throw: a throw in progress has its catch below it, also when an
\* after thunk threw.
THEOREM ThrowCorrect == Spec => []ThrowLands
  <1>1. ControlInv => ThrowLands
    BY DEF ControlInv, ThrowsHaveCatches, ThrowLands, Catch
  <1> QED
    BY <1>1, ControlInvariant, PTL

\* combined-suite.c: whatever the last expression did, the prompt finds nothing open.
THEOREM PromptCorrect == Spec => []PromptIsClean
  <1>1. ControlInv => PromptIsClean
    <2> SUFFICES ASSUME ControlInv, mode = "idle" PROVE ~catch_throwing /\ catch_depth = 0 /\ wind_depth = 0
      BY DEF PromptIsClean
    <2>1. DOMAIN stack = {} /\ catch_throwing \in BOOLEAN /\ catch_depth \in Nat /\ wind_depth \in Nat
      BY LispControlAssumption DEF ControlInv, Shape
    <2>2. ~catch_throwing
      BY <2>1 DEF ControlInv, ThrowsHaveCatches
    <2>3. \A e \in 0 .. catch_depth - 1 : FALSE
      BY <2>1 DEF ControlInv, CatchesInOrder
    <2>4. \A e \in 0 .. wind_depth - 1 : FALSE
      BY <2>1 DEF ControlInv, WindsAreOpen
    <2>5. \A n \in Nat : (\A e \in 0 .. n - 1 : FALSE) => n = 0
      <3>1. \A n \in Nat : n # 0 => 0 \in 0 .. n - 1
        OBVIOUS
      <3> QED
        BY <3>1
    <2> QED
      BY <2>1, <2>2, <2>3, <2>4, <2>5
  <1> QED
    BY <1>1, ControlInvariant, PTL

-----------------------------------------------------------------------------
(* After thunks that are owed *)

\* The step leaves the n oldest frames, among them every thunk; a new frame of a
\* dynamic-wind is of a new one; no thunk is entered, no after thunk forgotten.
Carried(n) ==
  /\ \A k \in 1 .. n : k \in DOMAIN stack /\ k \in DOMAIN stack' /\ stack'[k] = stack[k]
  /\ \A k \in DOMAIN stack : k \in 1 .. n \/ ~Thunk(k)
  /\ \A k \in DOMAIN stack' :
       \/ k \in 1 .. n
       \/ ~Winding(k)'
       \/ k = n + 1 /\ stack'[k].kind = "before" /\ stack'[k].n \notin DOMAIN winds
  /\ \A x \in DOMAIN winds :
       /\ x \in DOMAIN winds' /\ winds'[x].entered = winds[x].entered
       /\ winds'[x].afters = 0 => winds[x].afters = 0
  /\ \A x \in DOMAIN winds' : x \in DOMAIN winds \/ ~winds'[x].entered

\* The frames of a dynamic-wind are frames, and of one that was begun.
LEMMA WindingFrames ==
  ASSUME Shape
  PROVE  /\ \A k \in DOMAIN stack : Winding(k) => stack[k].n \in DOMAIN winds
         /\ \A k \in DOMAIN stack : Thunk(k) => Winding(k)
         /\ \A k : (Thunk(k) => k \in DOMAIN stack) /\ (Winding(k) => k \in DOMAIN stack)
         /\ \A x \in DOMAIN winds : winds[x].afters \in Nat /\ winds[x].entered \in BOOLEAN
         /\ DOMAIN winds = 1 .. Len(winds)
  <1>1. winds \in Seq([entered : BOOLEAN, afters : Nat]) /\ DOMAIN winds = 1 .. Len(winds)
    BY DEF Shape
  <1>2. ASSUME NEW x \in DOMAIN winds PROVE winds[x].afters \in Nat /\ winds[x].entered \in BOOLEAN
    <2>1. winds[x] \in [entered : BOOLEAN, afters : Nat]
      BY <1>1, <1>2, ElementOfSeq
    <2> QED
      BY <2>1
  <1>3. \A k \in DOMAIN stack : Winding(k) => stack[k].n \in 1 .. Len(winds)
    BY DEF Shape, FrameOK, Winding
  <1> QED
    BY <1>1, <1>2, <1>3 DEF Thunk, Winding

LEMMA OwedCarries ==
  ASSUME Shape, Shape', OwedInv, NEW n \in Nat, Carried(n), wind_after' = wind_after,
         \A k \in 1 .. n : Thunk(k) /\ Owed(k)' => stack[k].saved < wind_depth',
         catch_throwing' => \A k \in 1 .. n : Thunk(k) => ~Owed(k)'
  PROVE  OwedInv'
  <1>1. /\ \A k \in DOMAIN stack : Winding(k) => stack[k].n \in DOMAIN winds
        /\ \A k \in DOMAIN stack : Thunk(k) => Winding(k)
        /\ \A x \in DOMAIN winds : winds[x].afters \in Nat
    BY WindingFrames
  <1>2. \A x \in DOMAIN winds' : winds'[x].afters \in Nat
    <2>1. winds' \in Seq([entered : BOOLEAN, afters : Nat])
      BY DEF Shape
    <2>2. \A x \in DOMAIN winds' : winds'[x] \in [entered : BOOLEAN, afters : Nat]
      <3> DEFINE R == [entered : BOOLEAN, afters : Nat]
      <3>1. \A q \in Seq(R) : \A x \in DOMAIN q : q[x] \in R
        <4> HIDE DEF R
        <4> QED
          OBVIOUS
      <3> QED
        BY <2>1, <3>1
    <2> QED
      BY <2>2
  <1>3. /\ \A k \in 1 .. n : (Winding(k)' <=> Winding(k)) /\ (Thunk(k)' <=> Thunk(k))
        /\ \A k \in DOMAIN stack' : Thunk(k)' => k \in 1 .. n
    BY DEF Carried, Winding, Thunk
  <1>4. \A k \in 1 .. n : Thunk(k) /\ Owed(k)' => Owed(k)
    BY <1>1 DEF Carried, Owed
  <1>5. OneFrameEach'
    <2>1. ASSUME NEW j \in DOMAIN stack', NEW k \in DOMAIN stack', Winding(j)', Winding(k)', j # k,
                 j \in 1 .. n
          PROVE  stack'[j].n # stack'[k].n
      <3>1. j \in DOMAIN stack /\ Winding(j) /\ stack'[j] = stack[j] /\ stack[j].n \in DOMAIN winds
        BY <1>1, <1>3, <2>1 DEF Carried
      <3>2. CASE k \in 1 .. n
        BY <1>3, <2>1, <3>1, <3>2 DEF Carried, OwedInv, OneFrameEach
      <3>3. CASE stack'[k].n \notin DOMAIN winds
        BY <3>1, <3>3
      <3> QED
        BY <2>1, <3>2, <3>3 DEF Carried
    <2>2. \A j, k \in DOMAIN stack' : Winding(j)' /\ Winding(k)' /\ j # k => j \in 1 .. n \/ k \in 1 .. n
      BY DEF Carried
    <2> QED
      BY <2>1, <2>2 DEF OneFrameEach
  <1>6. OwedIsStacked'
    <2>1. ASSUME NEW k \in DOMAIN stack', Thunk(k)', Owed(k)'
          PROVE  stack'[k].saved < wind_depth' /\ wind_after'[stack'[k].saved] = stack'[k].n
      <3>1. k \in 1 .. n /\ k \in DOMAIN stack /\ Thunk(k) /\ stack'[k] = stack[k] /\ Owed(k)
        BY <1>3, <1>4, <2>1 DEF Carried
      <3> QED
        BY <2>1, <3>1 DEF OwedInv, OwedIsStacked
    <2>2. ASSUME NEW j \in DOMAIN stack', NEW k \in DOMAIN stack', Thunk(j)', Thunk(k)', j < k, Owed(j)'
          PROVE  stack'[j].saved < stack'[k].saved
      <3>1. /\ j \in 1 .. n /\ j \in DOMAIN stack /\ Thunk(j) /\ stack'[j] = stack[j] /\ Owed(j)
            /\ k \in 1 .. n /\ k \in DOMAIN stack /\ Thunk(k) /\ stack'[k] = stack[k]
        BY <1>3, <1>4, <2>2 DEF Carried
      <3> QED
        BY <2>2, <3>1 DEF OwedInv, OwedIsStacked
    <2>3. catch_throwing' => \A k \in DOMAIN stack' : Thunk(k)' => ~Owed(k)'
      BY <1>3
    <2> QED
      BY <2>1, <2>2, <2>3 DEF OwedIsStacked
  <1>7. AfterIsRun'
    <2>1. ASSUME NEW x \in DOMAIN winds', winds'[x].entered, ~(winds'[x].afters > 0)
          PROVE  \E k \in DOMAIN stack' : stack'[k].kind = "thunk" /\ stack'[k].n = x
      <3>1. x \in DOMAIN winds /\ winds[x].entered /\ winds[x].afters = 0
        BY <1>2, <2>1 DEF Carried
      <3>2. PICK k \in DOMAIN stack : stack[k].kind = "thunk" /\ stack[k].n = x
        BY <3>1 DEF OwedInv, AfterIsRun
      <3> QED
        BY <3>2 DEF Carried, Thunk
    <2> QED
      BY <2>1 DEF AfterIsRun
  <1> QED
    BY <1>5, <1>6, <1>7 DEF OwedInv

\* Forms and returns that start no thunk and apply no after thunk.
LEMMA PlainOwed ==
  ASSUME ControlInv, ControlInv', OwedInv,
         \/ repl \/ EvalAtom \/ EvalBegin \/ PrintResult \/ UNCHANGED vars \/ EvalWind
         \/ Return /\ (BeginReturn \/ AfterReturn \/ CatchReturn \/ (BeforeReturn /\ WindFull))
         \/ \E tag \in Tags : EvalThrow(tag) /\ Matching(tag) = {}
         \/ \E tag \in Tags : EvalCatch(tag)
  PROVE  OwedInv'
  <1>1. Shape /\ Shape' /\ stack \in Seq(Frames)
    BY DEF ControlInv, Shape
  <1>2. PICK m \in Nat : m = Len(stack) /\ DOMAIN stack = 1 .. m
    BY <1>1
  <1>3. wind_after' = wind_after /\ wind_depth' = wind_depth /\ (catch_throwing' => catch_throwing)
    BY DEF repl, EvalAtom, EvalBegin, PrintResult, EvalWind, Return, BeginReturn, AfterReturn, CatchReturn,
           BeforeReturn, EvalThrow, EvalCatch, EvalForm, vars, catches
  <1>4. /\ \A k \in DOMAIN stack : Winding(k) => stack[k].n \in DOMAIN winds
        /\ \A k \in DOMAIN stack : Thunk(k) => Winding(k)
        /\ \A x \in DOMAIN winds : winds[x].afters \in Nat
        /\ DOMAIN winds = 1 .. Len(winds)
    BY <1>1, WindingFrames
  <1>5. CASE winds' = winds /\ (stack' = stack \/ \E f \in Frames : f.kind \in {"begin", "catch"} /\ Pushed(m, f))
    <2>1. Carried(m)
      <3>1. CASE stack' = stack
        BY <1>2, <1>5, <3>1 DEF Carried
      <3>2. ASSUME NEW f \in Frames, f.kind \in {"begin", "catch"}, Pushed(m, f) PROVE Carried(m)
        <4>1. /\ \A k \in DOMAIN stack' : k \in 1 .. m \/ (k = m + 1 /\ stack'[k] = f)
              /\ \A k \in 1 .. m : /\ k \in DOMAIN stack /\ k \in DOMAIN stack' /\ stack'[k] = stack[k]
                                 /\ k \in Nat /\ k < m + 1
          BY <1>1, <3>2, PushedPoints
        <4>2. \A k \in DOMAIN stack' : k \in 1 .. m \/ ~Winding(k)'
          BY <3>2, <4>1 DEF Winding
        <4> QED
          BY <1>2, <1>5, <4>1, <4>2 DEF Carried
      <3> QED
        BY <1>5, <3>1, <3>2
    <2>2. \A k \in 1 .. m : Owed(k)' <=> Owed(k)
      BY <1>5, <2>1 DEF Carried, Owed
    <2> QED
      BY <1>1, <1>2, <1>3, <2>1, <2>2, OwedCarries DEF OwedInv, OwedIsStacked
  <1>6. CASE winds' = winds /\ Kept(m - 1) /\ m > 0 /\ stack[m].kind # "thunk"
    <2>1. PICK n \in Nat : n = m - 1
      BY <1>6
    <2>2. Carried(n)
      <3>1. /\ \A k \in 1 .. n : k \in DOMAIN stack /\ k \in DOMAIN stack' /\ stack'[k] = stack[k] /\ k \in Nat
            /\ stack' \in Seq(Frames) /\ DOMAIN stack' = 1 .. n
        BY <1>1, <1>6, <2>1, KeptPoints
      <3>2. \A k \in DOMAIN stack : k \in 1 .. n \/ k = m
        BY <1>2, <2>1
      <3> QED
        BY <1>6, <3>1, <3>2 DEF Carried, Thunk
    <2>3. \A k \in 1 .. n : k \in DOMAIN stack /\ (Owed(k)' <=> Owed(k))
      BY <1>6, <2>2 DEF Carried, Owed
    <2> QED
      BY <1>1, <1>3, <2>2, <2>3, OwedCarries DEF OwedInv, OwedIsStacked
  <1>7. CASE EvalWind
    <2>1. PICK f \in Frames : f = Frame("before", Len(winds) + 1, 0)
      <3>1. Len(winds) + 1 \in Nat
        BY <1>1 DEF Shape
      <3> QED
        BY <3>1 DEF Frame, Frames, Kinds
    <2>2. Pushed(m, f)
      BY <1>1, <1>2, <1>7, <2>1, StackSteps DEF EvalWind
    <2>3. /\ \A k \in DOMAIN stack' : k \in 1 .. m \/ (k = m + 1 /\ stack'[k] = f)
          /\ \A k \in 1 .. m : /\ k \in DOMAIN stack /\ k \in DOMAIN stack' /\ stack'[k] = stack[k]
                             /\ k \in Nat /\ k < m + 1
      BY <1>1, <2>2, PushedPoints
    <2> DEFINE R == [entered : BOOLEAN, afters : Nat]  r == [entered |-> FALSE, afters |-> 0]
    <2>4. winds' = Append(winds, r) /\ winds \in Seq(R) /\ r \in R /\ r.entered = FALSE
      BY <1>1, <1>7 DEF EvalWind, Shape
    <2> HIDE DEF R, r
    <2>5. /\ \A x \in 1 .. Len(winds) : x \in DOMAIN winds' /\ winds'[x] = winds[x]
          /\ \A x \in DOMAIN winds' : x \in 1 .. Len(winds) \/ winds'[x] = r
      <3>1. /\ \A x \in 1 .. Len(winds) : winds'[x] = winds[x]
            /\ winds'[Len(winds) + 1] = r /\ Len(winds') = Len(winds) + 1 /\ winds' \in Seq(R)
        BY <2>4, AppendProperties
      <3>2. DOMAIN winds' = 1 .. Len(winds) + 1 /\ Len(winds) \in Nat
        BY <2>4, <3>1
      <3> QED
        BY <3>1, <3>2
    <2>6. Len(winds) + 1 \notin DOMAIN winds
      BY <1>4, <2>4
    <2>7. Carried(m)
      BY <1>2, <1>4, <2>1, <2>3, <2>4, <2>5, <2>6 DEF Carried, Frame
    <2>8. \A k \in 1 .. m : Thunk(k) => (Owed(k)' <=> Owed(k))
      BY <1>4, <2>3, <2>5 DEF Owed
    <2> QED
      BY <1>1, <1>2, <1>3, <2>7, <2>8, OwedCarries DEF OwedInv, OwedIsStacked
  <1>8. CASE repl \/ EvalAtom \/ PrintResult \/ UNCHANGED vars \/ \E tag \in Tags : EvalThrow(tag) /\ Matching(tag) = {}
    BY <1>5, <1>8 DEF repl, EvalAtom, PrintResult, vars, EvalThrow
  <1>9. CASE EvalBegin
    <2>1. PICK f \in Frames : f = Frame("begin", 0, 0)
      BY DEF Frame, Frames, Kinds
    <2> QED
      BY <1>1, <1>2, <1>5, <1>9, <2>1, StackSteps DEF EvalBegin, Frame
  <1>10. ASSUME NEW tag \in Tags, EvalCatch(tag) PROVE OwedInv'
    <2>1. PICK f \in Frames : f = Frame("catch", 0, catch_depth)
      <3>1. catch_depth \in Nat
        BY <1>1, LispControlAssumption DEF Shape
      <3> QED
        BY <3>1 DEF Frame, Frames, Kinds
    <2> QED
      BY <1>1, <1>2, <1>5, <1>10, <2>1, StackSteps DEF EvalCatch, Frame
  <1>11. CASE Return /\ (BeginReturn \/ AfterReturn \/ CatchReturn \/ (BeforeReturn /\ WindFull))
    <2>1. stack # <<>> /\ stack' = Below /\ winds' = winds /\ Top.kind # "thunk"
      BY <1>11 DEF Return, BeginReturn, AfterReturn, CatchReturn, BeforeReturn
    <2>2. Kept(m - 1) /\ m > 0 /\ stack[m] = Top
      BY <1>1, <1>2, <2>1, StackSteps, StackHasTop
    <2> QED
      BY <1>6, <2>1, <2>2
  <1> QED
    BY <1>7, <1>8, <1>9, <1>10, <1>11

\* A throw applies the newest after thunk, so no older one can be the last that
\* is owed in its slot; it starts to unwind when none is left.
LEMMA ThrowOwed ==
  ASSUME ControlInv, ControlInv', OwedInv, NEW i, NEW tag \in Tags, NEW n \in Nat, NEW rest,
         Rest(n, rest), RunAfterThunks(i, tag, rest), wind_after' = wind_after
  PROVE  OwedInv'
  <1>1. Shape /\ Shape' /\ stack \in Seq(Frames)
    BY DEF ControlInv, Shape
  <1>2. /\ \A k \in DOMAIN stack : Winding(k) => stack[k].n \in DOMAIN winds
        /\ \A k \in DOMAIN stack : Thunk(k) => Winding(k)
        /\ \A x \in DOMAIN winds : winds[x].afters \in Nat
        /\ DOMAIN winds = 1 .. Len(winds)
    BY <1>1, WindingFrames
  <1>3. PICK d \in Nat : d = wind_depth /\ wind_depth \in 0 .. MAX_WIND_DEPTH
    BY <1>1, LispControlAssumption DEF Shape
  <1>4. /\ Kept(n) \/ \E f \in Frames : f.kind = "throw" /\ Pushed(n, f)
        /\ \A k \in DOMAIN stack : k \in 1 .. n \/ ~Thunk(k)
    <2>1. stack' = rest \/ (stack' = Append(rest, Frame("throw", i, tag)) /\ DOMAIN stack' # {})
      BY <1>1 DEF RunAfterThunks, Rest, Shape
    <2>2. ASSUME stack' = Append(rest, Frame("throw", i, tag)) PROVE Frame("throw", i, tag) \in Frames
      <3>1. rest \in Seq(Frames) /\ Len(rest) \in Nat
        BY <1>1, StackHasTop DEF Rest
      <3>2. Len(stack') = Len(rest) + 1 /\ stack'[Len(rest) + 1] = Frame("throw", i, tag)
        BY <2>2, <3>1
      <3>3. stack' \in Seq(Frames) /\ Len(rest) + 1 \in 1 .. Len(stack')
        BY <1>1, <3>1, <3>2 DEF Shape
      <3> QED
        BY <3>2, <3>3, ElementOfSeq
    <2>3. Kept(n) \/ \E f \in Frames : f.kind = "throw" /\ Pushed(n, f)
      BY <1>1, <2>1, <2>2, StackSteps DEF Rest, Frame
    <2>4. \A k \in DOMAIN stack : k \in 1 .. n \/ ~Thunk(k)
      BY <1>1, StackHasTop DEF Rest, Thunk
    <2> QED
      BY <2>3, <2>4
  <1>5. /\ \A k \in 1 .. n : k \in DOMAIN stack /\ k \in DOMAIN stack' /\ stack'[k] = stack[k]
        /\ \A k \in DOMAIN stack' : k \in 1 .. n \/ ~Winding(k)'
    <2>1. CASE Kept(n)
      BY <1>1, <2>1, KeptPoints
    <2>2. ASSUME NEW f \in Frames, f.kind = "throw", Pushed(n, f)
          PROVE  /\ \A k \in 1 .. n : k \in DOMAIN stack /\ k \in DOMAIN stack' /\ stack'[k] = stack[k]
                 /\ \A k \in DOMAIN stack' : k \in 1 .. n \/ ~Winding(k)'
      <3>1. /\ \A k \in DOMAIN stack' : k \in 1 .. n \/ (k = n + 1 /\ stack'[k] = f)
            /\ \A k \in 1 .. n : /\ k \in DOMAIN stack /\ k \in DOMAIN stack' /\ stack'[k] = stack[k]
                               /\ k \in Nat /\ k < n + 1
        BY <1>1, <2>2, PushedPoints
      <3> QED
        BY <2>2, <3>1 DEF Winding
    <2> QED
      BY <1>4, <2>1, <2>2
  <1>6. CASE wind_depth > 0
    <2> DEFINE w == wind_after[wind_depth - 1]
    <2>1. wind_depth' = d - 1 /\ winds' = Ran(w) /\ catch_throwing' = catch_throwing
      BY <1>3, <1>6 DEF RunAfterThunks, catches
    <2>2. /\ DOMAIN winds' = DOMAIN winds
          /\ \A x \in DOMAIN winds :
               /\ winds'[x].entered = winds[x].entered
               /\ winds'[x].afters = IF x = w /\ ~catch_throwing THEN winds[x].afters + 1
                                                              ELSE winds[x].afters
      <3>1. winds' \in Seq([entered : BOOLEAN, afters : Nat]) /\ Len(winds') = Len(winds)
        BY <1>1, <2>1, RanSame
      <3>2. DOMAIN winds' = 1 .. Len(winds')
        BY <3>1
      <3> QED
        BY <1>1, <1>2, <2>1, <3>1, <3>2, RanSame
    <2> HIDE DEF w
    <2>3. \A x \in DOMAIN winds : winds'[x].afters = 0 => winds[x].afters = 0 /\ ~(x = w /\ ~catch_throwing)
      BY <1>2, <2>2
    <2>4. Carried(n)
      BY <1>4, <1>5, <2>2, <2>3 DEF Carried
    <2>5. ASSUME NEW k \in 1 .. n, Thunk(k), Owed(k)'
          PROVE  stack[k].saved < wind_depth' /\ ~catch_throwing'
      <3>1. /\ k \in DOMAIN stack /\ stack'[k] = stack[k] /\ Owed(k) /\ stack[k].n \in DOMAIN winds
            /\ ~(stack[k].n = w /\ ~catch_throwing)
        BY <1>2, <1>5, <2>2, <2>3, <2>5 DEF Owed
      <3>2. ~catch_throwing /\ stack[k].saved < wind_depth /\ wind_after[stack[k].saved] = stack[k].n
        BY <2>5, <3>1 DEF OwedInv, OwedIsStacked
      <3>3. stack[k].saved # d - 1
        BY <1>3, <3>1, <3>2 DEF w
      <3>4. stack[k].saved \in Nat
        BY <1>1, <2>5, <3>1, LispControlAssumption DEF Shape, FrameOK, Thunk
      <3> QED
        BY <1>3, <2>1, <3>2, <3>3, <3>4
    <2> QED
      BY <1>1, <2>4, <2>5, OwedCarries
  <1>7. CASE ~(wind_depth > 0)
    <2>1. winds' = winds /\ wind_depth' = wind_depth
      BY <1>7 DEF RunAfterThunks
    <2>2. Carried(n)
      BY <1>4, <1>5, <2>1 DEF Carried
    <2>3. ASSUME NEW k \in 1 .. n, Thunk(k) PROVE ~Owed(k)'
      <3>1. k \in DOMAIN stack /\ (Owed(k)' <=> Owed(k))
        BY <1>5, <2>1 DEF Owed
      <3>2. stack[k].saved \in Nat
        BY <1>1, <2>3, <3>1, LispControlAssumption DEF Shape, FrameOK, Thunk
      <3>3. ~(stack[k].saved < wind_depth)
        BY <1>3, <1>7, <3>2
      <3> QED
        BY <2>3, <3>1, <3>3 DEF OwedInv, OwedIsStacked
    <2> QED
      BY <1>1, <2>2, <2>3, OwedCarries
  <1> QED
    BY <1>6, <1>7

\* A thunk that is entered saves a depth above everything that is owed.
LEMMA StartOwed ==
  ASSUME ControlInv, ControlInv', OwedInv, Return, BeforeReturn, ~WindFull
  PROVE  OwedInv'
  <1>1. Shape /\ Shape' /\ stack \in Seq(Frames)
    BY DEF ControlInv, Shape
  <1>2. /\ \A k \in DOMAIN stack : Winding(k) => stack[k].n \in DOMAIN winds
        /\ \A k \in DOMAIN stack : Thunk(k) => Winding(k)
        /\ \A x \in DOMAIN winds : winds[x].afters \in Nat
        /\ DOMAIN winds = 1 .. Len(winds)
    BY <1>1, WindingFrames
  <1>3. PICK m \in Nat :
           /\ m = Len(stack) - 1 /\ stack # <<>>
           /\ m + 1 \in DOMAIN stack /\ Top = stack[m + 1] /\ Top \in Frames
           /\ \A k \in 1 .. m : k \in DOMAIN stack /\ k \in Nat /\ k < m + 1
           /\ \A k \in DOMAIN stack : k \in 1 .. m \/ k = m + 1
    BY ReturnTakesTop
  <1>4. PICK d \in Nat : d = wind_depth /\ d \in 0 .. MAX_WIND_DEPTH - 1
    BY <1>1, LispControlAssumption DEF Shape, WindFull
  <1>5. PICK v \in Nat : v = Top.n /\ Top.kind = "before" /\ v \in DOMAIN winds /\ Winding(m + 1)
    BY <1>2, <1>3 DEF BeforeReturn, Winding, Frames
  <1>6. PICK f \in Frames : f.kind = "thunk" /\ f.n = v /\ f.saved = d /\ Pushed(m, f)
    <2>1. PICK f \in Frames : f = Frame("thunk", v, d)
      BY <1>4, <1>5 DEF Frame, Frames, Kinds
    <2>2. stack' = Append(Below, f)
      BY <1>4, <1>5, <2>1 DEF BeforeReturn
    <2> QED
      BY <1>1, <1>3, <2>1, <2>2, StackSteps DEF Frame
  <1>7. /\ \A k \in DOMAIN stack' : k \in 1 .. m \/ (k = m + 1 /\ stack'[k] = f)
        /\ \A k \in 1 .. m : /\ k \in DOMAIN stack /\ k \in DOMAIN stack' /\ stack'[k] = stack[k]
                           /\ k \in Nat /\ k < m + 1
        /\ m + 1 \in DOMAIN stack' /\ stack'[m + 1] = f
    BY <1>1, <1>6, PushedPoints
  <1>8. /\ wind_depth' = d + 1 /\ catch_throwing' = catch_throwing
        /\ wind_after'[d] = v /\ \A e \in 0 .. MAX_WIND_DEPTH - 1 : e # d => wind_after'[e] = wind_after[e]
    BY <1>1, <1>4, <1>5 DEF BeforeReturn, Shape, catches
  <1>9. /\ DOMAIN winds' = DOMAIN winds
        /\ \A x \in DOMAIN winds : /\ winds'[x].entered = IF x = v THEN ~catch_throwing ELSE winds[x].entered
                                 /\ winds'[x].afters = winds[x].afters
    <2>1. winds' = [winds EXCEPT ![v].entered = ~catch_throwing] /\ (~catch_throwing) \in BOOLEAN
      <3>1. winds' = [winds EXCEPT ![Top.n].entered = ~catch_throwing]
        BY DEF BeforeReturn
      <3> QED
        BY <1>5, <3>1
    <2>2. winds' \in Seq([entered : BOOLEAN, afters : Nat]) /\ Len(winds') = Len(winds)
      BY <1>1, <2>1, EnteredSame
    <2>3. DOMAIN winds' = 1 .. Len(winds')
      BY <2>2
    <2> QED
      BY <1>1, <1>2, <2>1, <2>2, <2>3, EnteredSame
  <1>10. /\ \A k \in 1 .. m : (Winding(k)' <=> Winding(k)) /\ (Thunk(k)' <=> Thunk(k))
         /\ \A k \in DOMAIN stack : Thunk(k) => k \in 1 .. m
    BY <1>3, <1>5, <1>7 DEF Winding, Thunk
  <1>11. \A k \in 1 .. m : Winding(k) => stack[k].n # v /\ stack[k].n \in DOMAIN winds
    BY <1>2, <1>3, <1>5 DEF OwedInv, OneFrameEach
  <1>12. \A k \in 1 .. m : Thunk(k) => (Owed(k)' <=> Owed(k))
    BY <1>2, <1>7, <1>9, <1>11 DEF Owed
  <1>13. \A k \in 1 .. m : Thunk(k) /\ Owed(k) =>
           /\ stack[k].saved < d /\ wind_after[stack[k].saved] = stack[k].n
           /\ stack[k].saved \in 0 .. MAX_WIND_DEPTH - 1
    BY <1>1, <1>4, <1>7 DEF OwedInv, OwedIsStacked, Shape, FrameOK, Thunk
  <1>14. OneFrameEach'
    <2>1. ASSUME NEW j \in DOMAIN stack', NEW k \in DOMAIN stack', Winding(j)', Winding(k)', j # k
          PROVE  stack'[j].n # stack'[k].n
      <3>1. CASE j \in 1 .. m /\ k \in 1 .. m
        BY <1>7, <1>10, <2>1, <3>1 DEF OwedInv, OneFrameEach
      <3>2. CASE j \in 1 .. m /\ k = m + 1
        BY <1>6, <1>7, <1>10, <1>11, <2>1, <3>2
      <3>3. CASE j = m + 1 /\ k \in 1 .. m
        BY <1>6, <1>7, <1>10, <1>11, <2>1, <3>3
      <3> QED
        BY <1>7, <2>1, <3>1, <3>2, <3>3
    <2> QED
      BY <2>1 DEF OneFrameEach
  <1>15. OwedIsStacked'
    <2>1. ASSUME NEW k \in DOMAIN stack', Thunk(k)', Owed(k)'
          PROVE  stack'[k].saved < wind_depth' /\ wind_after'[stack'[k].saved] = stack'[k].n
      <3>1. CASE k \in 1 .. m
        <4>1. Thunk(k) /\ Owed(k) /\ stack'[k] = stack[k]
          BY <1>7, <1>10, <1>12, <2>1, <3>1
        <4>2. stack[k].saved < d + 1 /\ stack[k].saved # d
          BY <1>4, <1>13, <3>1, <4>1
        <4> QED
          BY <1>8, <1>13, <3>1, <4>1, <4>2
      <3>2. CASE k = m + 1
        BY <1>6, <1>7, <1>8, <3>2
      <3> QED
        BY <1>7, <3>1, <3>2
    <2>2. ASSUME NEW j \in DOMAIN stack', NEW k \in DOMAIN stack', Thunk(j)', Thunk(k)', j < k, Owed(j)'
          PROVE  stack'[j].saved < stack'[k].saved
      <3>1. j \in 1 .. m
        BY <1>7, <2>2
      <3>2. Thunk(j) /\ Owed(j) /\ stack'[j] = stack[j] /\ j \in DOMAIN stack
        BY <1>7, <1>10, <1>12, <2>2, <3>1
      <3>3. CASE k \in 1 .. m
        BY <1>7, <1>10, <2>2, <3>2, <3>3 DEF OwedInv, OwedIsStacked
      <3>4. CASE k = m + 1
        BY <1>6, <1>7, <1>13, <3>1, <3>2, <3>4
      <3> QED
        BY <1>7, <3>3, <3>4
    <2>3. ASSUME catch_throwing', NEW k \in DOMAIN stack', Thunk(k)' PROVE ~Owed(k)'
      <3>1. CASE k \in 1 .. m
        BY <1>7, <1>8, <1>10, <1>12, <2>3, <3>1 DEF OwedInv, OwedIsStacked
      <3>2. CASE k = m + 1
        BY <1>5, <1>6, <1>7, <1>8, <1>9, <2>3, <3>2 DEF Owed
      <3> QED
        BY <1>7, <3>1, <3>2
    <2> QED
      BY <2>1, <2>2, <2>3 DEF OwedIsStacked
  <1>16. AfterIsRun'
    <2>1. ASSUME NEW x \in DOMAIN winds', winds'[x].entered, ~(winds'[x].afters > 0)
          PROVE  \E k \in DOMAIN stack' : stack'[k].kind = "thunk" /\ stack'[k].n = x
      <3>1. CASE x = v
        BY <1>6, <1>7, <3>1
      <3>2. CASE x # v
        <4>1. x \in DOMAIN winds /\ winds[x].entered /\ ~(winds[x].afters > 0)
          BY <1>9, <2>1, <3>2
        <4>2. PICK k \in DOMAIN stack : stack[k].kind = "thunk" /\ stack[k].n = x
          BY <4>1 DEF OwedInv, AfterIsRun
        <4> QED
          BY <1>7, <1>10, <4>2 DEF Thunk
      <3> QED
        BY <3>1, <3>2
    <2> QED
      BY <2>1 DEF AfterIsRun
  <1> QED
    BY <1>14, <1>15, <1>16 DEF OwedInv

\* A thunk that ends applies its after thunk, or was thrown out of and owes none.
LEMMA EndOwed ==
  ASSUME ControlInv, ControlInv', OwedInv, Return, ThunkReturn
  PROVE  OwedInv'
  <1>1. Shape /\ Shape' /\ stack \in Seq(Frames)
    BY DEF ControlInv, Shape
  <1>2. /\ \A k \in DOMAIN stack : Winding(k) => stack[k].n \in DOMAIN winds
        /\ \A k \in DOMAIN stack : Thunk(k) => Winding(k)
        /\ \A x \in DOMAIN winds : winds[x].afters \in Nat /\ winds[x].entered \in BOOLEAN
        /\ DOMAIN winds = 1 .. Len(winds)
    BY <1>1, WindingFrames
  <1>3. PICK m \in Nat :
           /\ m = Len(stack) - 1 /\ stack # <<>>
           /\ m + 1 \in DOMAIN stack /\ Top = stack[m + 1] /\ Top \in Frames
           /\ \A k \in 1 .. m : k \in DOMAIN stack /\ k \in Nat /\ k < m + 1
           /\ \A k \in DOMAIN stack : k \in 1 .. m \/ k = m + 1
    BY ReturnTakesTop
  <1>4. PICK v \in Nat : v = Top.n /\ Top.kind = "thunk" /\ Thunk(m + 1) /\ Winding(m + 1) /\ v \in DOMAIN winds
    BY <1>2, <1>3 DEF ThunkReturn, Thunk, Frames
  <1>5. /\ wind_depth' = Top.saved /\ wind_after' = wind_after /\ catch_throwing' = catch_throwing
        /\ catch_throwing => winds' = winds
        /\ ~catch_throwing => winds' = Ran(v)
    BY <1>4 DEF ThunkReturn, Unwound, catches
  <1>6. /\ DOMAIN winds' = DOMAIN winds
        /\ \A x \in DOMAIN winds :
             /\ winds'[x].entered = winds[x].entered
             /\ winds'[x].afters = IF x = v /\ ~catch_throwing THEN winds[x].afters + 1
                                                            ELSE winds[x].afters
    <2>1. CASE catch_throwing
      BY <1>5, <2>1
    <2>2. CASE ~catch_throwing
      <3>1. winds' \in Seq([entered : BOOLEAN, afters : Nat]) /\ Len(winds') = Len(winds)
        BY <1>1, <1>5, <2>2, RanSame
      <3>2. DOMAIN winds' = 1 .. Len(winds')
        BY <3>1
      <3> QED
        BY <1>1, <1>2, <1>5, <2>2, <3>1, <3>2, RanSame
    <2> QED
      BY <2>1, <2>2
  <1>7. /\ \A k \in 1 .. m : k \in DOMAIN stack' /\ stack'[k] = stack[k]
        /\ \A k \in DOMAIN stack' : k \in 1 .. m \/ ~Winding(k)'
    <2>1. CASE stack' = Below
      <3>1. Kept(m)
        BY <1>1, <1>3, <2>1, StackSteps
      <3> QED
        BY <1>1, <3>1, KeptPoints
    <2>2. CASE stack' = Append(Below, Frame("after", Top.n, 0))
      <3>1. PICK f \in Frames : f = Frame("after", Top.n, 0)
        BY <1>3 DEF Frame, Frames, Kinds
      <3>2. Pushed(m, f)
        BY <1>1, <1>3, <2>2, <3>1, StackSteps
      <3>3. /\ \A k \in DOMAIN stack' : k \in 1 .. m \/ (k = m + 1 /\ stack'[k] = f)
            /\ \A k \in 1 .. m : /\ k \in DOMAIN stack /\ k \in DOMAIN stack' /\ stack'[k] = stack[k]
                               /\ k \in Nat /\ k < m + 1
        BY <1>1, <3>2, PushedPoints
      <3> QED
        BY <3>1, <3>3 DEF Frame, Winding
    <2> QED
      BY <2>1, <2>2 DEF ThunkReturn
  <1>8. /\ \A k \in 1 .. m : (Winding(k)' <=> Winding(k)) /\ (Thunk(k)' <=> Thunk(k))
        /\ \A k \in DOMAIN stack' : Thunk(k)' => k \in 1 .. m
    BY <1>3, <1>7 DEF Winding, Thunk
  <1>9. \A k \in 1 .. m : Thunk(k) /\ Owed(k)' => Owed(k)
    <2>1. \A x \in DOMAIN winds : winds'[x].afters = 0 => winds[x].afters = 0
      BY <1>2, <1>6
    <2>2. ASSUME NEW k \in 1 .. m, Thunk(k), Owed(k)' PROVE Owed(k)
      <3>1. stack'[k] = stack[k] /\ stack[k].n \in DOMAIN winds
        BY <1>2, <1>3, <1>7, <2>2
      <3>2. winds'[stack[k].n].entered /\ winds'[stack[k].n].afters = 0
        BY <2>2, <3>1 DEF Owed
      <3> QED
        BY <1>6, <2>1, <3>1, <3>2 DEF Owed
    <2> QED
      BY <2>2
  <1>10. OneFrameEach'
    BY <1>3, <1>7, <1>8 DEF OwedInv, OneFrameEach
  <1>11. OwedIsStacked'
    <2>1. ASSUME NEW k \in DOMAIN stack', Thunk(k)', Owed(k)'
          PROVE  stack'[k].saved < wind_depth' /\ wind_after'[stack'[k].saved] = stack'[k].n
      <3>1. k \in 1 .. m /\ k \in DOMAIN stack /\ Thunk(k) /\ stack'[k] = stack[k] /\ Owed(k) /\ k < m + 1
        BY <1>3, <1>7, <1>8, <1>9, <2>1
      <3>2. stack[k].saved < stack[m + 1].saved
        BY <1>3, <1>4, <3>1 DEF OwedInv, OwedIsStacked
      <3>3. wind_after[stack[k].saved] = stack[k].n
        BY <3>1 DEF OwedInv, OwedIsStacked
      <3> QED
        BY <1>3, <1>5, <3>1, <3>2, <3>3
    <2>2. ASSUME NEW j \in DOMAIN stack', NEW k \in DOMAIN stack', Thunk(j)', Thunk(k)', j < k, Owed(j)'
          PROVE  stack'[j].saved < stack'[k].saved
      BY <1>3, <1>7, <1>8, <1>9, <2>2 DEF OwedInv, OwedIsStacked
    <2>3. ASSUME catch_throwing', NEW k \in DOMAIN stack', Thunk(k)' PROVE ~Owed(k)'
      BY <1>3, <1>5, <1>8, <1>9, <2>3 DEF OwedInv, OwedIsStacked
    <2> QED
      BY <2>1, <2>2, <2>3 DEF OwedIsStacked
  <1>12. AfterIsRun'
    <2>1. ASSUME NEW x \in DOMAIN winds', winds'[x].entered, ~(winds'[x].afters > 0)
          PROVE  \E k \in DOMAIN stack' : stack'[k].kind = "thunk" /\ stack'[k].n = x
      <3>1. x \in DOMAIN winds /\ winds[x].entered /\ winds[x].afters = 0 /\ ~(x = v /\ ~catch_throwing)
        BY <1>2, <1>6, <2>1
      <3>2. PICK k \in DOMAIN stack : stack[k].kind = "thunk" /\ stack[k].n = x
        BY <3>1 DEF OwedInv, AfterIsRun
      <3>3. CASE k = m + 1
        <4>1. x = v /\ catch_throwing
          BY <1>3, <1>4, <3>1, <3>2, <3>3
        <4>2. Owed(m + 1)
          BY <1>3, <1>4, <3>1, <4>1 DEF Owed
        <4> QED
          BY <1>3, <1>4, <4>1, <4>2 DEF OwedInv, OwedIsStacked
      <3> QED
        BY <1>3, <1>7, <3>2, <3>3
    <2> QED
      BY <2>1 DEF AfterIsRun
  <1> QED
    BY <1>10, <1>11, <1>12 DEF OwedInv

LEMMA OwedStep == ControlInv /\ OwedInv /\ [Next]_vars => OwedInv'
  <1> SUFFICES ASSUME ControlInv, OwedInv, [Next]_vars PROVE OwedInv'
    OBVIOUS
  <1>0. ControlInv'
    BY ControlStep
  <1>1. CASE repl \/ EvalAtom \/ EvalBegin \/ EvalWind \/ PrintResult \/ UNCHANGED vars
    BY <1>0, <1>1, PlainOwed
  <1>2. ASSUME NEW tag \in Tags, EvalCatch(tag) PROVE OwedInv'
    BY <1>0, <1>2, PlainOwed
  <1>3. ASSUME NEW tag \in Tags, EvalThrow(tag) PROVE OwedInv'
    <2>1. CASE Matching(tag) = {}
      BY <1>0, <1>3, <2>1, PlainOwed
    <2>2. CASE Matching(tag) # {}
      <3>1. PICK n \in Nat : n = Len(stack)
        BY DEF ControlInv, Shape
      <3>2. RunAfterThunks(Newest(Matching(tag)), tag, stack) /\ wind_after' = wind_after
        BY <1>3, <2>2 DEF EvalThrow
      <3>3. Rest(n, stack)
        BY <3>1 DEF Rest
      <3> QED
        BY <1>0, <3>2, <3>3, ThrowOwed
    <2> QED
      BY <2>1, <2>2
  <1>4. CASE Return
    <2>1. CASE BeginReturn \/ AfterReturn \/ CatchReturn
      BY <1>0, <1>4, <2>1, PlainOwed
    <2>2. CASE BeforeReturn
      BY <1>0, <1>4, <2>2, PlainOwed, StartOwed
    <2>3. CASE ThunkReturn
      BY <1>0, <1>4, <2>3, EndOwed
    <2>4. CASE ThrowGoesOn
      <3>1. PICK m \in Nat : m = Len(stack) - 1 /\ stack # <<>> /\ Top \in Frames /\ FrameOK(Top)
        BY <1>4, ReturnTakesTop
      <3>2. RunAfterThunks(Top.n, Top.saved, Below) /\ wind_after' = wind_after /\ Top.saved \in Tags
        BY <2>4, <3>1 DEF ThrowGoesOn, FrameOK
      <3>3. Rest(m, Below)
        BY <2>4, <3>1 DEF Rest, ThrowGoesOn
      <3> QED
        BY <1>0, <3>2, <3>3, ThrowOwed
    <2> QED
      BY <1>4, <2>1, <2>2, <2>3, <2>4 DEF Return
  <1> QED
    BY <1>1, <1>2, <1>3, <1>4 DEF Next

\* eval.h, eval_dynamic_wind and eval_throw: a thunk that was entered is not left
\* before its after thunk was applied, for every nesting of throws.
THEOREM AfterCorrect == Spec => []AfterIsRun
  <1>1. Init => OwedInv
    BY DEF Init, OwedInv, OneFrameEach, OwedIsStacked, AfterIsRun
  <1>2. OwedInv => AfterIsRun
    BY DEF OwedInv
  <1> QED
    BY <1>1, <1>2, OwedStep, ControlInvariant, PTL DEF Spec
=============================================================================
