---------------------------- MODULE LispControl ----------------------------
(***************************************************************************)
(* catch, throw and dynamic-wind of the combined Lisp suite (eval.h).  The *)
(* C stack of the evaluator is a sequence of frames: what a function does  *)
(* with the value of the evaluation it waits for.  A program is chosen     *)
(* form by form as it is evaluated; values, environments and every form    *)
(* without an effect on control are a single "atom".                       *)
(***************************************************************************)
EXTENDS Naturals, Sequences, SequencesExt, FiniteSets

CONSTANTS
  Tags, NoTag,
  MAX_CATCH_DEPTH, MAX_WIND_DEPTH,   \* 16 in the code
  MaxForms        \* bound: forms evaluated, atoms not counted

ASSUME LispControlAssumption ==
  /\ NoTag \notin Tags
  /\ MAX_CATCH_DEPTH \in Nat /\ MAX_WIND_DEPTH \in Nat /\ MaxForms \in Nat

VARIABLES
  mode,           \* "idle" at the prompt, "eval" an expression, "return" a value
  stack,          \* frames of the C stack, the newest last
  catch_tags, catch_vals, catch_depth,
  catch_throwing, catch_target,
  wind_after, wind_depth,
  winds,          \* history: for each dynamic-wind, its thunk entered, its after run
  forms

catches == <<catch_tags, catch_vals, catch_depth, catch_throwing, catch_target>>
vars == <<mode, stack, catches, wind_after, wind_depth, winds, forms>>

Top == Last(stack)
Below == Front(stack)
Count(kind) == Cardinality({k \in DOMAIN stack : stack[k].kind = kind})

Frame(kind, n, saved) == [kind |-> kind, n |-> n, saved |-> saved]

Init ==
  /\ mode = "idle" /\ stack = <<>> /\ forms = 0
  /\ catch_tags = [i \in 0 .. MAX_CATCH_DEPTH - 1 |-> NoTag]
  /\ catch_vals = catch_tags
  /\ catch_depth = 0 /\ catch_throwing = FALSE /\ catch_target = 0
  /\ wind_after = [i \in 0 .. MAX_WIND_DEPTH - 1 |-> 0] /\ wind_depth = 0
  /\ winds = <<>>

-----------------------------------------------------------------------------
\* The read-eval-print loop takes the next expression.
repl ==
  /\ mode = "idle" /\ forms < MaxForms /\ mode' = "eval"
  /\ UNCHANGED <<stack, catches, wind_after, wind_depth, winds, forms>>

\* An expression that changes no control state; while a throw unwinds, every
\* form gives up like this, after the evaluation of its head.
EvalAtom ==
  /\ mode = "eval" /\ mode' = "return"
  /\ UNCHANGED <<stack, catches, wind_after, wind_depth, winds, forms>>

EvalForm ==
  mode = "eval" /\ ~catch_throwing /\ forms < MaxForms /\ forms' = forms + 1

\* begin, or any form that evaluates one expression and then another.
EvalBegin ==
  /\ EvalForm
  /\ stack' = Append(stack, Frame("begin", 0, 0))
  /\ UNCHANGED <<mode, catches, wind_after, wind_depth, winds>>

EvalCatch(tag) ==
  /\ EvalForm
  /\ IF catch_depth >= MAX_CATCH_DEPTH
     THEN mode' = "return" /\ UNCHANGED <<stack, catches>>
     ELSE /\ catch_tags' = [catch_tags EXCEPT ![catch_depth] = tag]
          /\ catch_vals' = [catch_vals EXCEPT ![catch_depth] = NoTag]
          /\ catch_depth' = catch_depth + 1
          /\ stack' = Append(stack, Frame("catch", 0, catch_depth))
          /\ UNCHANGED <<mode, catch_throwing, catch_target>>
  /\ UNCHANGED <<wind_after, wind_depth, winds>>

\* (dynamic-wind before thunk after): before is applied first.
EvalWind ==
  /\ EvalForm
  /\ winds' = Append(winds, [entered |-> FALSE, afters |-> 0])
  /\ stack' = Append(stack, Frame("before", Len(winds) + 1, 0))
  /\ UNCHANGED <<mode, catches, wind_after, wind_depth>>

-----------------------------------------------------------------------------
(* throw *)

Ran(w) == IF catch_throwing THEN winds ELSE [winds EXCEPT ![w].afters = @ + 1]

\* Seeded bug: only the innermost after thunk is run.
RunOneAfterThunk(i, tag, rest) ==
  IF wind_depth > 0 /\ stack = rest
  THEN LET w == wind_after[wind_depth - 1] IN
       /\ wind_depth' = wind_depth - 1 /\ winds' = Ran(w)
       /\ stack' = Append(rest, Frame("throw", i, tag)) /\ mode' = "eval"
       /\ UNCHANGED catches
  ELSE /\ stack' = rest /\ mode' = "return"
       /\ catch_throwing' = TRUE /\ catch_target' = i
       /\ catch_vals' = [catch_vals EXCEPT ![i] = tag]
       /\ UNCHANGED <<catch_tags, catch_depth, wind_depth, winds>>

\* One turn of the loop that pops the wind stack down to nothing and applies
\* each after thunk; when it is empty, the unwinding starts.  The value thrown
\* is identified with the tag.
RunAfterThunks(i, tag, rest) ==
  IF wind_depth > 0
  THEN LET w == wind_after[wind_depth - 1] IN
       /\ wind_depth' = wind_depth - 1 /\ winds' = Ran(w)
       /\ stack' = Append(rest, Frame("throw", i, tag)) /\ mode' = "eval"
       /\ UNCHANGED catches
  ELSE /\ stack' = rest /\ mode' = "return"
       /\ catch_throwing' = TRUE /\ catch_target' = i
       /\ catch_vals' = [catch_vals EXCEPT ![i] = tag]
       /\ UNCHANGED <<catch_tags, catch_depth, wind_depth, winds>>

\* Seeded bug: the search starts one slot above the newest catch.
MatchingOneAbove(tag) ==
  {i \in DOMAIN catch_tags : i <= catch_depth /\ catch_tags[i] = tag}

Matching(tag) == {i \in 0 .. catch_depth - 1 : catch_tags[i] = tag}
Newest(set) == CHOOSE i \in set : \A j \in set : j <= i

EvalThrow(tag) ==
  /\ EvalForm
  /\ IF Matching(tag) = {}
     THEN mode' = "return" /\ UNCHANGED <<stack, catches, wind_depth, winds>>
     ELSE RunAfterThunks(Newest(Matching(tag)), tag, stack)
  /\ UNCHANGED wind_after

ThrowGoesOn ==
  /\ Top.kind = "throw"
  /\ RunAfterThunks(Top.n, Top.saved, Below)
  /\ UNCHANGED wind_after

-----------------------------------------------------------------------------
(* Return of a value to the newest frame *)

BeginReturn ==
  /\ Top.kind = "begin" /\ stack' = Below
  /\ mode' = IF catch_throwing THEN "return" ELSE "eval"
  /\ UNCHANGED <<catches, wind_after, wind_depth, winds>>

\* Seeded bug: the depth is restored only by the catch that is the target.
RestoredByTarget(saved) ==
  IF catch_throwing /\ catch_target # saved THEN catch_depth ELSE saved

Restored(saved) == saved

CatchReturn ==
  /\ Top.kind = "catch" /\ stack' = Below
  /\ catch_depth' = Restored(Top.saved)
  /\ catch_throwing' = (catch_throwing /\ catch_target # Top.saved)
  /\ UNCHANGED <<mode, catch_tags, catch_vals, catch_target, wind_after, wind_depth, winds>>

WindFull == wind_depth >= MAX_WIND_DEPTH

\* before has returned, by a throw or not: after is pushed, thunk applied.
BeforeReturn ==
  /\ Top.kind = "before"
  /\ IF WindFull
     THEN stack' = Below /\ mode' = "return" /\ UNCHANGED <<wind_after, wind_depth, winds>>
     ELSE /\ wind_after' = [i \in DOMAIN wind_after \cup {wind_depth} |->
                              IF i = wind_depth THEN Top.n ELSE wind_after[i]]
          /\ wind_depth' = wind_depth + 1
          /\ winds' = [winds EXCEPT ![Top.n].entered = ~catch_throwing]
          /\ stack' = Append(Below, Frame("thunk", Top.n, wind_depth))
          /\ mode' = "eval"
  /\ UNCHANGED catches

\* Seeded bug: the depth a throw has left is kept.
UnwoundKept(saved) == IF catch_throwing THEN wind_depth + 1 ELSE saved

Unwound(saved) == saved

ThunkReturn ==
  /\ Top.kind = "thunk" /\ wind_depth' = Unwound(Top.saved)
  /\ IF catch_throwing
     THEN stack' = Below /\ UNCHANGED <<mode, winds>>
     ELSE /\ stack' = Append(Below, Frame("after", Top.n, 0)) /\ mode' = "eval"
          /\ winds' = Ran(Top.n)
  /\ UNCHANGED <<catches, wind_after>>

AfterReturn ==
  /\ Top.kind = "after" /\ stack' = Below
  /\ UNCHANGED <<mode, catches, wind_after, wind_depth, winds>>

Return ==
  /\ mode = "return" /\ stack # <<>>
  /\ BeginReturn \/ CatchReturn \/ BeforeReturn \/ ThunkReturn \/ AfterReturn \/ ThrowGoesOn
  /\ UNCHANGED forms

\* The loop prints the value.
PrintResult ==
  /\ mode = "return" /\ stack = <<>> /\ mode' = "idle"
  /\ UNCHANGED <<stack, catches, wind_after, wind_depth, winds, forms>>

Next ==
  \/ repl \/ EvalAtom \/ EvalBegin \/ EvalWind
  \/ \E tag \in Tags : EvalCatch(tag) \/ EvalThrow(tag)
  \/ Return \/ PrintResult

Spec == Init /\ [][Next]_vars

-----------------------------------------------------------------------------
(* Properties *)

\* Depths stay within the two fixed arrays.
TypeOK ==
  /\ mode \in {"idle", "eval", "return"} /\ forms \in 0 .. MaxForms
  /\ \A k \in DOMAIN stack :
       stack[k].kind \in {"begin", "catch", "before", "thunk", "after", "throw"}
  /\ catch_tags \in [0 .. MAX_CATCH_DEPTH - 1 -> Tags \cup {NoTag}]
  /\ catch_vals \in [0 .. MAX_CATCH_DEPTH - 1 -> Tags \cup {NoTag}]
  /\ catch_depth \in 0 .. MAX_CATCH_DEPTH /\ catch_throwing \in BOOLEAN
  /\ wind_after \in [0 .. MAX_WIND_DEPTH - 1 -> 0 .. Len(winds)]
  /\ wind_depth \in 0 .. MAX_WIND_DEPTH

\* A throw in progress has the evaluation of its catch below it on the C
\* stack, with its value in the slot that this catch will read, also when
\* after thunks throw themselves.
ThrowLands ==
  catch_throwing =>
    /\ catch_vals[catch_target] = catch_tags[catch_target]
    /\ \E k \in DOMAIN stack : stack[k].kind = "catch" /\ stack[k].saved = catch_target

\* catch_depth counts the catches that are being evaluated: a throw never
\* goes to a catch that has returned.
CatchDepthIsCurrent == catch_depth = Count("catch")

\* eval.h: neither stack is written outside of its array, and the newest catch is
\* the one being evaluated, after every mixture of returns, throws and refusals.
StacksOK == TypeOK /\ CatchDepthIsCurrent

\* Whatever was thrown, the prompt finds the evaluator as it was started:
\* nothing unwinding, no catch and no after thunk left.
PromptIsClean ==
  mode = "idle" => ~catch_throwing /\ catch_depth = 0 /\ wind_depth = 0

\* A thunk that was entered is never left, normally or by a throw, before its
\* after thunk was applied.
AfterIsRun ==
  \A w \in DOMAIN winds :
    winds[w].entered =>
      \/ winds[w].afters > 0
      \/ \E k \in DOMAIN stack : stack[k].kind = "thunk" /\ stack[k].n = w

\* eval.h: the wind stack holds after-thunks to run during unwind.  A thunk is
\* run once, by the throw that unwinds it or when its dynamic-wind ends.
AfterIsRunOnce == \A w \in DOMAIN winds : winds[w].afters <= 1
=============================================================================
