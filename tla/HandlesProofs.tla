---------------------------- MODULE HandlesProofs ----------------------------
(***************************************************************************)
(* The handles of module Handles for any number of goroutines, handles and *)
(* addresses: the null tests hold, nothing but an array of sizes leaks and,*)
(* as long as callers keep calls apart, every call and every Close reaches *)
(* its own object and none is lost.                                        *)
(***************************************************************************)
EXTENDS Handles, TLAPS

MakingSteps == {"header", "filter", "temporary", "columns"}

(* What a call's step says of the call, whatever the callers do: where its *)
(* handle comes from, and that a reader under construction has no handle.  *)
CallShape ==
    \A g \in Goroutine :
        /\ call[g].step = "idle" => call[g].on = Nil
        /\ call[g].step # "idle" => call[g].on \in Handle
        /\ call[g].step \in MakingSteps =>
              call[g].op = "New" /\ call[g].on \in Reader \ made /\ call[g].ptr \in Address
        /\ call[g].step \in {"delete", "clear"} => call[g].op = "Close"
        /\ call[g].step \in {"load", "run"} => call[g].op \in {"Write", "Build", "Contains"}
        /\ call[g].step # "idle" /\ call[g].op # "New" => call[g].on \in made

(* A reader is made by one call, and only a handle that New has returned   *)
(* has an address.                                                         *)
OneMaker ==
    \A g, o \in Goroutine :
        call[g].step \in MakingSteps /\ call[o].step \in MakingSteps
        /\ call[g].on = call[o].on => g = o
FieldIsMade == \A h \in Handle : field[h] # Nil => h \in made

(* What a call has allocated and has not yet deferred to free.             *)
HeldIsSizes ==
    \A g \in Goroutine :
        call[g].held \ call[g].deferred
            \subseteq {"sizes"} \cup (IF call[g].step = "copy" THEN {"bytes"} ELSE {})

(* Two calls on one handle are both Contains.                              *)
CallsApart ==
    \A g, o \in Goroutine :
        g # o /\ call[g].on = call[o].on /\ call[g].on # Nil
            => call[g].op = "Contains" /\ call[o].op = "Contains"

(* The object of a handle lies at the handle's address, unless it was just *)
(* deleted and the address is still to be cleared.                         *)
FieldHasObject ==
    \A h \in Handle : field[h] # Nil =>
        \/ object[field[h]] = h
        \/ \E g \in Goroutine : call[g].on = h /\ call[g].step = "clear"

ObjectHasField ==
    \A a \in Address : object[a] # Nil =>
        field[object[a]] = a \/ \E g \in Goroutine : Making(g, object[a], a)

(* What the steps of a call know of its object.                            *)
StepsOwnObject ==
    \A g \in Goroutine :
        /\ call[g].step = "run" => object[call[g].ptr] = call[g].on
        /\ call[g].step \in MakingSteps => object[call[g].ptr] = call[g].on
        /\ call[g].step = "delete" =>
              field[call[g].on] # Nil /\ object[field[call[g].on]] = call[g].on
        /\ call[g].step = "clear" => \A a \in Address : object[a] # call[g].on

Ownership == CallsApart /\ FieldHasObject /\ ObjectHasField /\ StepsOwnObject

(* UsesOwnObject is not inductive: that a deleted object is not somebody   *)
(* else's needs that objects and fields correspond both ways, but for the  *)
(* two moments when a constructor runs and when Close clears the field.    *)
Shape == TypeOK /\ CallShape /\ OneMaker /\ FieldIsMade
HInv == Shape /\ (~ misused => Ownership)
-----------------------------------------------------------------------------
(* The start.                                                              *)
LEMMA InitHInv == Init => HInv
<1> SUFFICES ASSUME Init PROVE HInv
  OBVIOUS
<1>1. \A g \in Goroutine : call[g] = NoCall
  BY DEF Init
<1>2. TypeOK
  BY DEF Init, TypeOK, NoCall, Handle, Buffer, Step
<1>3. CallShape /\ OneMaker
  BY <1>1 DEF CallShape, OneMaker, NoCall, MakingSteps
<1>4. FieldIsMade /\ FieldHasObject
  BY DEF Init, FieldIsMade, FieldHasObject
<1>5. ObjectHasField
  BY DEF Init, ObjectHasField
<1>6. CallsApart /\ StepsOwnObject
  BY <1>1 DEF CallsApart, StepsOwnObject, NoCall, MakingSteps
<1> QED
  BY <1>2, <1>3, <1>4, <1>5, <1>6 DEF HInv, Shape, Ownership

(* A call on a handle that New has returned.                               *)
LEMMA EnterShape ==
    ASSUME Shape, NEW g \in Goroutine, NEW h \in Handle,
           NEW op \in {"Write", "Build", "Contains", "Close"},
           NEW step \in {"load", "return", "delete"}, NEW strings \in SUBSET Buffer,
           step = "load" => op # "Close", step = "delete" => op = "Close",
           Enter(g, h, op, step, strings)
    PROVE  Shape'
<1> DEFINE c == [op |-> op, on |-> h, step |-> step, ptr |-> Nil,
                 held |-> strings, deferred |-> strings]
<1>1. /\ call' = [call EXCEPT ![g] = c] /\ call[g].step = "idle" /\ h \in made
      /\ UNCHANGED <<field, made, object, trie, leaked, alive>>
  BY DEF Enter, At
<1>2. misused' \in BOOLEAN
  BY DEF Enter, Shape, TypeOK
<1>3. TypeOK'
  BY <1>1, <1>2 DEF Shape, TypeOK, Buffer, Step, Handle
<1>4. /\ call'[g] = c
      /\ \A o \in Goroutine : o # g => call'[o] = call[o]
  BY <1>1 DEF Shape, TypeOK
<1>5. CallShape' /\ OneMaker'
  BY <1>1, <1>4 DEF Shape, CallShape, OneMaker, MakingSteps
<1>6. FieldIsMade'
  BY <1>1 DEF Shape, FieldIsMade
<1> QED
  BY <1>3, <1>5, <1>6 DEF Shape

(* Types and shape, action by action.                                      *)
LEMMA NextShape == Shape /\ [Next]_vars => Shape'
<1> SUFFICES ASSUME Shape, [Next]_vars PROVE Shape'
  OBVIOUS
<1> USE HandlesAssumption
<1>1. ASSUME NEW g \in Goroutine, NEW h \in Handle, NewWriter(g, h) PROVE Shape'
  BY <1>1 DEF NewWriter, At, Shape, TypeOK, CallShape, OneMaker, FieldIsMade,
     MakingSteps, Handle, Buffer, Step
<1>2. ASSUME NEW g \in Goroutine, NEW h \in Handle, NewReader(g, h) PROVE Shape'
  BY <1>2 DEF NewReader, At, Shape, TypeOK, CallShape, OneMaker, FieldIsMade,
     MakingSteps, Handle, Buffer, Step
<1>3. ASSUME NEW g \in Goroutine, NEW h \in Handle,
             Write(g, h) \/ Build(g, h) \/ Contains(g, h) \/ Close(g, h)
      PROVE  Shape'
  BY <1>3, EnterShape DEF Write, Build, Contains, Close, Buffer
<1>4. ASSUME NEW g \in Goroutine, Load(g) PROVE Shape'
  <2>1. /\ call[g].step = "load"
        /\ UNCHANGED <<field, made, object, trie, leaked, misused, alive>>
        /\ \E s \in {"return", "run"}, p \in Address \cup {Nil} :
              call' = [call EXCEPT ![g].ptr = p, ![g].step = s]
    <3>1. field[call[g].on] \in Address \cup {Nil}
      BY <1>4 DEF Load, At, Shape, TypeOK, CallShape
    <3> QED
      BY <1>4, <3>1 DEF Load, At
  <2>2. CallShape' /\ OneMaker' /\ FieldIsMade'
    BY <2>1 DEF Shape, TypeOK, CallShape, OneMaker, FieldIsMade, MakingSteps
  <2>3. TypeOK'
    BY <2>1 DEF Shape, TypeOK, Step
  <2> QED
    BY <2>2, <2>3 DEF Shape
<1>5. ASSUME NEW g \in Goroutine, Run(g) PROVE Shape'
  <2>1. alive' \in BOOLEAN /\ call[g].step = "run"
    BY <1>5 DEF Run, Undefined, At
  <2>2. /\ UNCHANGED <<field, made, object, trie, leaked, misused>>
        /\ \E s \in {"return", "sizes"} : call' = [call EXCEPT ![g].step = s]
    BY <1>5 DEF Run, Goto
  <2>3. CallShape' /\ OneMaker' /\ FieldIsMade'
    BY <2>1, <2>2 DEF Shape, TypeOK, CallShape, OneMaker, FieldIsMade, MakingSteps
  <2>4. TypeOK'
    BY <2>1, <2>2 DEF Shape, TypeOK, Step
  <2> QED
    BY <2>3, <2>4 DEF Shape
<1>6. ASSUME NEW g \in Goroutine, CopyResults(g) PROVE Shape'
  BY <1>6 DEF CopyResults, At, Shape, TypeOK, CallShape, OneMaker, FieldIsMade,
     MakingSteps, Handle, Buffer, Step
<1>7. ASSUME NEW g \in Goroutine, Return(g) \/ ClearField(g) PROVE Shape'
  <2>1. /\ call' = [call EXCEPT ![g] = NoCall]
        /\ UNCHANGED <<made, object, trie, misused, alive>>
        /\ field' \in [Handle -> Address \cup {Nil}]
        /\ \A h \in Handle : field'[h] # Nil => field[h] # Nil
    BY <1>7 DEF Return, ClearField, Shape, TypeOK
  <2>2. leaked' \subseteq Buffer
    BY <1>7 DEF Return, ClearField, Shape, TypeOK
  <2>3. /\ call'[g] = NoCall
        /\ \A o \in Goroutine : o # g => call'[o] = call[o]
    BY <2>1 DEF Shape, TypeOK
  <2>4. CallShape' /\ OneMaker' /\ FieldIsMade'
    BY <2>1, <2>3 DEF Shape, CallShape, OneMaker, FieldIsMade, MakingSteps, NoCall
  <2>5. TypeOK'
    BY <2>1, <2>2 DEF Shape, TypeOK, Step, NoCall
  <2> QED
    BY <2>4, <2>5 DEF Shape
<1>8. ASSUME NEW g \in Goroutine,
             NewArray(g, "sizes", "bytes") \/ NewArray(g, "bytes", "copy")
      PROVE  Shape'
  <2>1. /\ call[g].step \in {"sizes", "bytes"}
        /\ UNCHANGED <<field, made, object, trie, leaked, misused, alive>>
        /\ \E s \in {"bytes", "copy", "return"}, held \in SUBSET Buffer :
              call' = [call EXCEPT ![g].held = held, ![g].step = s]
    <3>1. CASE Goto(g, "return")
      <4>1. call' = [call EXCEPT ![g].held = call[g].held, ![g].step = "return"]
        BY <3>1 DEF Goto, Shape, TypeOK
      <4>2. call[g].held \in SUBSET Buffer
        BY DEF Shape, TypeOK
      <4> QED
        BY <1>8, <4>1, <4>2 DEF NewArray, At
    <3>2. CASE \E s \in {"sizes", "bytes"}, next \in {"bytes", "copy"} :
                  call' = [call EXCEPT ![g].held = @ \cup {s}, ![g].step = next]
      BY <1>8, <3>2 DEF NewArray, At, Shape, TypeOK, Buffer
    <3> QED
      BY <1>8, <3>1, <3>2 DEF NewArray
  <2>2. CallShape' /\ OneMaker' /\ FieldIsMade'
    BY <2>1 DEF Shape, TypeOK, CallShape, OneMaker, FieldIsMade, MakingSteps
  <2>3. TypeOK'
    <3>1. PICK s \in {"bytes", "copy", "return"}, held \in SUBSET Buffer :
             call' = [call EXCEPT ![g].held = held, ![g].step = s]
      BY <2>1
    <3>2. s \in Step /\ s # "run"
      BY <3>1 DEF Step
    <3> DEFINE c == [call[g] EXCEPT !.held = held, !.step = s]
    <3>3. call' = [call EXCEPT ![g] = c]
      BY <3>1 DEF Shape, TypeOK
    <3>4. c \in [op: {"none", "New", "Write", "Build", "Contains", "Close"},
                 on: Handle \cup {Nil}, step: Step, ptr: Address \cup {Nil},
                 held: SUBSET Buffer, deferred: SUBSET Buffer] /\ c.step # "run"
      BY <3>2, ZenonT(30) DEF Shape, TypeOK
    <3> QED
      BY <2>1, <3>3, <3>4 DEF Shape, TypeOK
  <2> QED
    BY <2>2, <2>3 DEF Shape
<1>9. ASSUME NEW g \in Goroutine, ReadHeader(g) PROVE Shape'
  <2>1. /\ call[g].step = "header" /\ object' \in [Address -> Handle \cup {Nil}]
        /\ UNCHANGED <<field, made, trie, leaked, misused, alive>>
        /\ \E s \in {"return", "filter"} : call' = [call EXCEPT ![g].step = s]
    BY <1>9 DEF ReadHeader, Abandon, Goto, At, Shape, TypeOK
  <2>2. CallShape' /\ OneMaker' /\ FieldIsMade'
    BY <2>1 DEF Shape, TypeOK, CallShape, OneMaker, FieldIsMade, MakingSteps
  <2>3. TypeOK'
    BY <2>1 DEF Shape, TypeOK, Step
  <2> QED
    BY <2>2, <2>3 DEF Shape
<1>10. ASSUME NEW g \in Goroutine, AssignFilter(g) \/ DropTemporary(g) PROVE Shape'
  BY <1>10 DEF AssignFilter, DropTemporary, Goto, At, Shape, TypeOK, CallShape, OneMaker,
     FieldIsMade, MakingSteps, Handle, Buffer, Step
<1>11. ASSUME NEW g \in Goroutine, ReadColumns(g) PROVE Shape'
  <2>1. /\ call[g].step = "columns" /\ UNCHANGED <<leaked, misused>>
        /\ call' = [call EXCEPT ![g].step = "return"]
    BY <1>11 DEF ReadColumns, Abandon, Goto, At
  <2>2. alive' \in BOOLEAN /\ object' \in [Address -> Handle \cup {Nil}]
        /\ trie' \in [Reader -> {"none", "live", "freed"}]
    BY <1>11 DEF ReadColumns, Abandon, Undefined, Shape, TypeOK
  <2>3. call[g].on \in Reader \ made /\ call[g].ptr \in Address
    BY <2>1 DEF Shape, CallShape, MakingSteps
  <2>4. \/ /\ field' = [field EXCEPT ![call[g].on] = call[g].ptr]
           /\ made' = made \cup {call[g].on}
        \/ UNCHANGED <<field, made>>
    BY <1>11 DEF ReadColumns
  <2>5. TypeOK'
    BY <2>1, <2>2, <2>3, <2>4 DEF Shape, TypeOK, Step, Handle
  <2>6. CallShape' /\ OneMaker'
    BY <2>1, <2>3, <2>4 DEF Shape, TypeOK, CallShape, OneMaker, MakingSteps, Handle
  <2>7. FieldIsMade'
    BY <2>3, <2>4 DEF Shape, TypeOK, FieldIsMade, Handle
  <2> QED
    BY <2>5, <2>6, <2>7 DEF Shape
<1>12. ASSUME NEW g \in Goroutine, Delete(g) PROVE Shape'
  <2>1. /\ call[g].step = "delete" /\ UNCHANGED <<field, made, leaked, misused>>
        /\ call' = [call EXCEPT ![g].step = "clear"]
    BY <1>12 DEF Delete, Goto, At
  <2>2. alive' \in BOOLEAN /\ object' \in [Address -> Handle \cup {Nil}]
        /\ trie' \in [Reader -> {"none", "live", "freed"}]
    BY <1>12 DEF Delete, Undefined, Shape, TypeOK
  <2>3. CallShape' /\ OneMaker' /\ FieldIsMade'
    BY <2>1 DEF Shape, TypeOK, CallShape, OneMaker, FieldIsMade, MakingSteps
  <2>4. TypeOK'
    BY <2>1, <2>2 DEF Shape, TypeOK, Step
  <2> QED
    BY <2>3, <2>4 DEF Shape
<1>13. ASSUME UNCHANGED vars PROVE Shape'
  BY <1>13 DEF vars, Shape, TypeOK, CallShape, OneMaker, FieldIsMade
<1> QED
  BY <1>1, <1>2, <1>3, <1>4, <1>5, <1>6, <1>7, <1>8, <1>9, <1>10, <1>11, <1>12, <1>13
     DEF Next

(* Everything a call allocates it also defers to free, but for the bytes   *)
(* until the two arrays are deferred together: on any path, in any order.  *)
LEMMA NextHeld == TypeOK /\ HeldIsSizes /\ [Next]_vars => HeldIsSizes'
<1> SUFFICES ASSUME TypeOK, HeldIsSizes, [Next]_vars PROVE HeldIsSizes'
  OBVIOUS
<1> DEFINE Lost(c) == c.held \ c.deferred
           Allowed(c) == {"sizes"} \cup (IF c.step = "copy" THEN {"bytes"} ELSE {})
<1>0. ASSUME NEW g \in Goroutine, Lost(call'[g]) \subseteq Allowed(call'[g]),
             \A o \in Goroutine : o # g => call'[o] = call[o]
      PROVE  HeldIsSizes'
  BY <1>0 DEF HeldIsSizes
<1>1. ASSUME NEW g \in Goroutine, NEW s, call[g].step # "copy", Goto(g, s)
      PROVE  HeldIsSizes'
  <2>1. /\ call'[g].held = call[g].held /\ call'[g].deferred = call[g].deferred
        /\ \A o \in Goroutine : o # g => call'[o] = call[o]
    BY <1>1 DEF Goto, TypeOK
  <2>2. Lost(call[g]) \subseteq {"sizes"}
    BY <1>1 DEF HeldIsSizes
  <2> QED
    BY <2>1, <2>2, <1>0
<1>2. ASSUME NEW g \in Goroutine, NEW h \in Handle,
             NewReader(g, h) \/ Write(g, h) \/ Build(g, h) \/ Contains(g, h) \/ Close(g, h)
      PROVE  HeldIsSizes'
  <2>1. /\ call'[g].held = call'[g].deferred
        /\ \A o \in Goroutine : o # g => call'[o] = call[o]
    <3>1. CASE NewReader(g, h)
      BY <3>1 DEF NewReader, TypeOK
    <3>2. ASSUME NEW op, NEW step, NEW strings, Enter(g, h, op, step, strings)
          PROVE  <2>1
      BY <3>2 DEF Enter, TypeOK
    <3> QED
      BY <1>2, <3>1, <3>2 DEF Write, Build, Contains, Close
  <2> QED
    BY <2>1, <1>0
<1>3. ASSUME NEW g \in Goroutine, Return(g) \/ ClearField(g) PROVE HeldIsSizes'
  <2>1. /\ call'[g].held = {}
        /\ \A o \in Goroutine : o # g => call'[o] = call[o]
    BY <1>3 DEF Return, ClearField, NoCall, TypeOK
  <2> QED
    BY <2>1, <1>0
<1>4. ASSUME NEW g \in Goroutine, Load(g) PROVE HeldIsSizes'
  <2>1. /\ call'[g].held = call[g].held /\ call'[g].deferred = call[g].deferred
        /\ call[g].step = "load"
        /\ \A o \in Goroutine : o # g => call'[o] = call[o]
    BY <1>4 DEF Load, At, TypeOK
  <2>2. Lost(call[g]) \subseteq {"sizes"}
    BY <2>1 DEF HeldIsSizes
  <2> QED
    BY <2>1, <2>2, <1>0
<1>5. ASSUME NEW g \in Goroutine,
             NewArray(g, "sizes", "bytes") \/ NewArray(g, "bytes", "copy")
      PROVE  HeldIsSizes'
  <2>1. call[g].step \in {"sizes", "bytes"} /\ Lost(call[g]) \subseteq {"sizes"}
    BY <1>5 DEF NewArray, At, HeldIsSizes
  <2>2. CASE Goto(g, "return")
    BY <2>1, <2>2, <1>1
  <2>3. CASE call' = [call EXCEPT ![g].held = @ \cup {"sizes"}, ![g].step = "bytes"]
    <3>1. /\ call'[g].held = call[g].held \cup {"sizes"}
          /\ call'[g].deferred = call[g].deferred
          /\ \A o \in Goroutine : o # g => call'[o] = call[o]
      BY <2>3 DEF TypeOK
    <3> QED
      BY <2>1, <3>1, <1>0
  <2>4. CASE call' = [call EXCEPT ![g].held = @ \cup {"bytes"}, ![g].step = "copy"]
    <3>1. /\ call'[g].held = call[g].held \cup {"bytes"} /\ call'[g].step = "copy"
          /\ call'[g].deferred = call[g].deferred
          /\ \A o \in Goroutine : o # g => call'[o] = call[o]
      BY <2>4 DEF TypeOK
    <3> QED
      BY <2>1, <3>1, <1>0
  <2> QED
    BY <1>5, <2>2, <2>3, <2>4 DEF NewArray
<1>6. ASSUME NEW g \in Goroutine, CopyResults(g) PROVE HeldIsSizes'
  <2>1. /\ call'[g].held = call[g].held
        /\ call'[g].deferred = call[g].deferred \cup {"sizes", "bytes"}
        /\ \A o \in Goroutine : o # g => call'[o] = call[o]
    BY <1>6 DEF CopyResults, TypeOK
  <2>2. Lost(call[g]) \subseteq {"sizes", "bytes"}
    BY DEF HeldIsSizes
  <2> QED
    BY <2>1, <2>2, <1>0
<1>7. ASSUME NEW g \in Goroutine,
             \/ Run(g) \/ Delete(g)
             \/ ReadHeader(g) \/ AssignFilter(g) \/ DropTemporary(g) \/ ReadColumns(g)
      PROVE  HeldIsSizes'
  <2>1. call[g].step # "copy" /\ \E s \in Step : Goto(g, s)
    BY <1>7 DEF Run, Delete, ReadHeader, AssignFilter, DropTemporary, ReadColumns,
       Abandon, At, Step
  <2> QED
    BY <2>1, <1>1
<1>8. CASE \E g \in Goroutine, h \in Handle : NewWriter(g, h)
  BY <1>8 DEF NewWriter, HeldIsSizes
<1>9. CASE UNCHANGED vars
  BY <1>9 DEF vars, HeldIsSizes
<1> QED
  BY <1>2, <1>3, <1>4, <1>5, <1>6, <1>7, <1>8, <1>9 DEF Next

(* A step of a call that touches no handle and no object keeps ownership:  *)
(* reading, allocating, copying and the first steps of a constructor.      *)
LEMMA QuietOwnership ==
    ASSUME Shape, Ownership, NEW g \in Goroutine, NEW s, Goto(g, s),
           UNCHANGED <<field, made, object, misused>>,
           \/ call[g].step \in {"run", "sizes", "bytes"}
                 /\ s \in {"sizes", "bytes", "copy", "return"}
           \/ call[g].step \in MakingSteps /\ s \in MakingSteps
    PROVE  Ownership'
<1>1. /\ call'[g].on = call[g].on /\ call'[g].op = call[g].op
      /\ call'[g].ptr = call[g].ptr /\ call'[g].step = s
      /\ \A o \in Goroutine : o # g => call'[o] = call[o]
  BY DEF Goto, Shape, TypeOK
<1>2. CallsApart'
  BY <1>1 DEF Ownership, CallsApart
<1>3. FieldHasObject'
  BY <1>1 DEF Ownership, FieldHasObject, MakingSteps
<1>4. ObjectHasField'
  BY <1>1 DEF Ownership, ObjectHasField, Making, MakingSteps
<1>5. StepsOwnObject'
  BY <1>1 DEF Ownership, StepsOwnObject, MakingSteps
<1> QED
  BY <1>2, <1>3, <1>4, <1>5 DEF Ownership

(* A call that begins while callers keep calls apart.  Close finds its own *)
(* object: only another Close could have deleted it.                       *)
LEMMA EnterOwnership ==
    ASSUME Shape, Ownership, ~ misused', NEW g \in Goroutine, NEW h \in Handle,
           NEW op \in {"Write", "Build", "Contains", "Close"},
           NEW step \in {"load", "return", "delete"}, NEW strings \in SUBSET Buffer,
           step = "delete" => field[h] # Nil, Enter(g, h, op, step, strings)
    PROVE  Ownership'
<1> USE HandlesAssumption
<1>1. /\ call[g].step = "idle" /\ UNCHANGED <<field, object>>
      /\ call'[g].on = h /\ call'[g].op = op /\ call'[g].step = step
      /\ \A o \in Goroutine : o # g => call'[o] = call[o]
  BY DEF Enter, At, Shape, TypeOK
<1>2. \A o \in Goroutine : call[o].on = h => op = "Contains" /\ call[o].op = "Contains"
  BY DEF Enter
<1>3. CallsApart'
  BY <1>1, <1>2 DEF Ownership, CallsApart
<1>4. FieldHasObject'
  BY <1>1 DEF Ownership, FieldHasObject
<1>5. ObjectHasField'
  BY <1>1 DEF Ownership, ObjectHasField, Making
<1>6. step = "delete" => object[field[h]] = h
  BY <1>2 DEF Ownership, FieldHasObject, Shape, CallShape
<1>7. StepsOwnObject'
  BY <1>1, <1>6 DEF Ownership, StepsOwnObject, MakingSteps
<1> QED
  BY <1>3, <1>4, <1>5, <1>7 DEF Ownership

(* A new object lies where none was, at the address of no other handle.    *)
LEMMA NewOwnership ==
    ASSUME Shape, Ownership, NEW g \in Goroutine, NEW h \in Handle,
           NewWriter(g, h) \/ NewReader(g, h)
    PROVE  Ownership'
<1> USE HandlesAssumption
<1>1. /\ h \notin made /\ field[h] = Nil /\ call[g].step = "idle"
      /\ \A k \in Handle : field[k] # Nil => k \in made
  BY DEF NewWriter, NewReader, At, Shape, FieldIsMade
<1>2. PICK a \in Address : object[a] = Nil /\ object' = [object EXCEPT ![a] = h]
                           /\ (NewWriter(g, h) => field' = [field EXCEPT ![h] = a])
                           /\ (~ NewWriter(g, h) => call'[g].ptr = a)
  BY DEF NewWriter, NewReader, Shape, TypeOK
<1>3. /\ object'[a] = h /\ a # Nil /\ \A k \in Handle : k # Nil
      /\ \A b \in Address : b # a => object'[b] = object[b]
  BY <1>2 DEF Shape, TypeOK, Handle
<1>4. \A o \in Goroutine :
         /\ call[o].step = "run" => call[o].ptr \in Address \ {a}
         /\ call[o].step \in MakingSteps => call[o].ptr \in Address \ {a}
         /\ call[o].step = "delete" => field[call[o].on] # a /\ call[o].on \in made
         /\ call[o].step = "clear" => call[o].on \in made
  BY <1>1, <1>2 DEF Ownership, StepsOwnObject, Shape, TypeOK, CallShape, Handle, MakingSteps
<1>5. CASE NewWriter(g, h)
  <2>1. /\ UNCHANGED call /\ field'[h] = a
        /\ \A k \in Handle : k # h => field'[k] = field[k]
    BY <1>2, <1>5 DEF NewWriter, Shape, TypeOK
  <2>2. CallsApart'
    BY <2>1 DEF Ownership, CallsApart
  <2>3. FieldHasObject'
    BY <1>2, <1>3, <2>1 DEF Ownership, FieldHasObject, Shape, TypeOK
  <2>4. ObjectHasField'
    BY <1>1, <1>3, <2>1 DEF Ownership, ObjectHasField, Making, Shape, TypeOK
  <2>5. StepsOwnObject'
    BY <1>1, <1>3, <1>4, <2>1 DEF Ownership, StepsOwnObject, Shape, TypeOK, CallShape, MakingSteps
  <2> QED
    BY <2>2, <2>3, <2>4, <2>5 DEF Ownership
<1>6. CASE ~ NewWriter(g, h)
  <2>1. /\ UNCHANGED field
        /\ call'[g].on = h /\ call'[g].step = "header" /\ call'[g].ptr = a
        /\ \A o \in Goroutine : o # g => call'[o] = call[o]
        /\ \A o \in Goroutine : call[o].on # h
    <3>1. NewReader(g, h)
      BY <1>6
    <3>2. PICK b \in Address :
             call' = [call EXCEPT ![g] = [op |-> "New", on |-> h, step |-> "header", ptr |-> b,
                                          held |-> {"string"}, deferred |-> {"string"}]]
      BY <3>1 DEF NewReader
    <3>3. /\ call'[g].on = h /\ call'[g].step = "header"
          /\ \A o \in Goroutine : o # g => call'[o] = call[o]
      BY <3>2 DEF Shape, TypeOK
    <3> QED
      BY <1>2, <1>6, <3>1, <3>3 DEF NewReader
  <2>2. CallsApart'
    BY <2>1 DEF Ownership, CallsApart
  <2>3. FieldHasObject'
    BY <1>1, <1>2, <1>3, <2>1 DEF Ownership, FieldHasObject, Shape, TypeOK
  <2>4. ObjectHasField'
    BY <1>1, <1>3, <2>1 DEF Ownership, ObjectHasField, Making
  <2>5. StepsOwnObject'
    BY <1>1, <1>3, <1>4, <2>1 DEF Ownership, StepsOwnObject, Shape, TypeOK, CallShape, MakingSteps
  <2> QED
    BY <2>2, <2>3, <2>4, <2>5 DEF Ownership
<1> QED
  BY <1>5, <1>6

(* A constructor that gives up takes only its own object away.             *)
LEMMA AbandonOwnership ==
    ASSUME Shape, Ownership, NEW g \in Goroutine, call[g].step \in MakingSteps,
           Abandon(g), UNCHANGED field
    PROVE  Ownership'
<1> USE HandlesAssumption
<1> DEFINE h == call[g].on
           p == call[g].ptr
<1>1. /\ call'[g].on = h /\ call'[g].op = call[g].op /\ call'[g].step = "return"
      /\ \A o \in Goroutine : o # g => call'[o] = call[o]
  BY DEF Abandon, Goto, Shape, TypeOK
<1>2. /\ h \in Handle \ made /\ call[g].op = "New" /\ p \in Address /\ object[p] = h
      /\ \A k \in Handle : k # Nil
  BY DEF Shape, CallShape, Ownership, StepsOwnObject, Handle
<1>3. /\ object'[p] = Nil
      /\ \A b \in Address : b # p => object'[b] = object[b]
  BY <1>2 DEF Abandon, Shape, TypeOK
<1>4. \A o \in Goroutine \ {g} : call[o].on # h
  BY <1>2 DEF Ownership, CallsApart
<1>5. CallsApart'
  BY <1>1 DEF Ownership, CallsApart
<1>6. FieldHasObject'
  BY <1>1, <1>2, <1>3 DEF Ownership, FieldHasObject, Shape, FieldIsMade, TypeOK, MakingSteps
<1>7. ObjectHasField'
  BY <1>1, <1>2, <1>3 DEF Ownership, ObjectHasField, Making
<1>8. StepsOwnObject'
  <2>1. \A o \in Goroutine \ {g} :
           call[o].step \in MakingSteps \cup {"run"} => call[o].ptr \in Address \ {p}
    BY <1>2, <1>4 DEF Ownership, StepsOwnObject, Shape, TypeOK, CallShape
  <2>2. \A o \in Goroutine \ {g} :
           call[o].step = "delete" => field[call[o].on] \in Address \ {p}
    BY <1>2, <1>4 DEF Ownership, StepsOwnObject, Shape, TypeOK, CallShape
  <2>3. \A o \in Goroutine \ {g} : call[o].step = "clear" => call[o].on # Nil
    BY <1>2 DEF Shape, CallShape
  <2> QED
    BY <1>1, <1>3, <2>1, <2>2, <2>3 DEF Ownership, StepsOwnObject, MakingSteps
<1> QED
  BY <1>5, <1>6, <1>7, <1>8 DEF Ownership

(* A constructor that succeeds: its reader gets the object it has made.    *)
LEMMA OpenOwnership ==
    ASSUME Shape, Ownership, NEW g \in Goroutine, call[g].step \in MakingSteps,
           field' = [field EXCEPT ![call[g].on] = call[g].ptr],
           Goto(g, "return"), UNCHANGED object
    PROVE  Ownership'
<1> USE HandlesAssumption
<1> DEFINE h == call[g].on
           p == call[g].ptr
<1>1. /\ call'[g].on = h /\ call'[g].op = call[g].op /\ call'[g].step = "return"
      /\ \A o \in Goroutine : o # g => call'[o] = call[o]
  BY DEF Goto, Shape, TypeOK
<1>2. /\ h \in Handle \ made /\ p \in Address /\ object[p] = h /\ field[h] = Nil
  BY DEF Shape, CallShape, Ownership, StepsOwnObject, FieldIsMade, Handle
<1>3. /\ field'[h] = p
      /\ \A k \in Handle : k # h => field'[k] = field[k]
  BY <1>2 DEF Shape, TypeOK
<1>4. CallsApart'
  BY <1>1 DEF Ownership, CallsApart
<1>5. FieldHasObject'
  BY <1>1, <1>2, <1>3 DEF Ownership, FieldHasObject, MakingSteps
<1>6. ObjectHasField'
  BY <1>1, <1>2, <1>3 DEF Ownership, ObjectHasField, Making, Shape, TypeOK
<1>7. StepsOwnObject'
  <2>1. \A o \in Goroutine : call[o].step = "delete" => call[o].on \in Handle \ {h}
    BY <1>2 DEF Shape, CallShape
  <2> QED
    BY <1>1, <1>3, <2>1 DEF Ownership, StepsOwnObject, MakingSteps
<1> QED
  BY <1>4, <1>5, <1>6, <1>7 DEF Ownership

(* Delete takes away the object of the handle that is closed, and it was   *)
(* the only one of that handle.                                            *)
LEMMA DeleteOwnership ==
    ASSUME Shape, Ownership, NEW g \in Goroutine, Delete(g)
    PROVE  Ownership'
<1> USE HandlesAssumption
<1> DEFINE h == call[g].on
           p == field[h]
<1>1. /\ call'[g].on = h /\ call'[g].op = call[g].op /\ call'[g].step = "clear"
      /\ call[g].step = "delete" /\ UNCHANGED field
      /\ \A o \in Goroutine : o # g => call'[o] = call[o]
  BY DEF Delete, Goto, At, Shape, TypeOK
<1>2. /\ h \in Handle /\ call[g].op = "Close" /\ p \in Address /\ object[p] = h
      /\ \A k \in Handle : k # Nil
  BY <1>1 DEF Shape, TypeOK, CallShape, Ownership, StepsOwnObject, Handle
<1>3. /\ object'[p] = Nil
      /\ \A b \in Address : b # p => object'[b] = object[b]
  BY <1>2 DEF Delete
<1>4. \A o \in Goroutine \ {g} : call[o].on # h
  BY <1>2 DEF Ownership, CallsApart
<1>5. CallsApart'
  BY <1>1 DEF Ownership, CallsApart
<1>6. FieldHasObject'
  <2>1. ASSUME NEW k \in Handle, field[k] # Nil, object[field[k]] = k, k # h
        PROVE  object'[field[k]] = k
    BY <2>1, <1>2, <1>3 DEF Shape, TypeOK
  <2> QED
    BY <1>1, <2>1 DEF Ownership, FieldHasObject
<1>7. ObjectHasField'
  BY <1>1, <1>2, <1>3 DEF Ownership, ObjectHasField, Making
<1>8. StepsOwnObject'
  <2>1. \A o \in Goroutine \ {g} :
           call[o].step \in MakingSteps \cup {"run"} => call[o].ptr \in Address \ {p}
    BY <1>2, <1>4 DEF Ownership, StepsOwnObject, Shape, TypeOK, CallShape
  <2>2. \A o \in Goroutine \ {g} :
           call[o].step = "delete" => field[call[o].on] \in Address \ {p}
    BY <1>2, <1>4 DEF Ownership, StepsOwnObject, Shape, TypeOK, CallShape
  <2>3. \A o \in Goroutine \ {g} : call[o].step = "clear" => call[o].on # Nil
    BY <1>2 DEF Shape, CallShape
  <2>4. \A b \in Address \ {p} : object[b] # h
    BY <1>2, <1>4, <1>1 DEF Ownership, ObjectHasField, Making
  <2> QED
    BY <1>1, <1>2, <1>3, <2>1, <2>2, <2>3, <2>4 DEF Ownership, StepsOwnObject, MakingSteps
<1> QED
  BY <1>5, <1>6, <1>7, <1>8 DEF Ownership

(* A call that ends.  The address that Close clears has no object any more.*)
LEMMA EndOwnership ==
    ASSUME Shape, Ownership, NEW g \in Goroutine, Return(g) \/ ClearField(g)
    PROVE  Ownership'
<1> USE HandlesAssumption
<1>1. /\ call'[g].on = Nil /\ call'[g].step = "idle" /\ UNCHANGED object
      /\ \A o \in Goroutine : o # g => call'[o] = call[o]
  BY DEF Return, ClearField, NoCall, Shape, TypeOK
<1>2. CallsApart'
  BY <1>1 DEF Ownership, CallsApart
<1>3. CASE Return(g)
  <2>1. call[g].step = "return" /\ UNCHANGED field
    BY <1>3 DEF Return, At
  <2>2. FieldHasObject'
    BY <1>1, <2>1 DEF Ownership, FieldHasObject
  <2>3. ObjectHasField'
    BY <1>1, <2>1 DEF Ownership, ObjectHasField, Making
  <2>4. StepsOwnObject'
    BY <1>1, <2>1 DEF Ownership, StepsOwnObject, MakingSteps
  <2> QED
    BY <1>2, <2>2, <2>3, <2>4 DEF Ownership
<1>4. CASE ClearField(g)
  <2> DEFINE h == call[g].on
  <2>1. /\ call[g].step = "clear" /\ call[g].op = "Close" /\ h \in Handle /\ h # Nil
        /\ \A a \in Address : object[a] # h
    BY <1>4 DEF ClearField, At, Shape, CallShape, Ownership, StepsOwnObject, Handle
  <2>2. /\ field'[h] = Nil
        /\ \A k \in Handle : k # h => field'[k] = field[k]
    BY <1>4, <2>1 DEF ClearField, Shape, TypeOK
  <2>3. \A o \in Goroutine \ {g} : call[o].on # h
    BY <2>1 DEF Ownership, CallsApart
  <2>4. FieldHasObject'
    BY <1>1, <2>2, <2>1 DEF Ownership, FieldHasObject
  <2>5. ObjectHasField'
    BY <1>1, <2>1, <2>2 DEF Ownership, ObjectHasField, Making, Shape, TypeOK
  <2>6. StepsOwnObject'
    <3>1. \A o \in Goroutine \ {g} : call[o].step = "delete" => call[o].on \in Handle
      BY DEF Shape, CallShape
    <3> QED
      BY <1>1, <2>2, <2>3, <3>1 DEF Ownership, StepsOwnObject, MakingSteps
  <2> QED
    BY <1>2, <2>4, <2>5, <2>6 DEF Ownership
<1> QED
  BY <1>3, <1>4

(* The pointer a call reads from its handle leads to the handle's object:  *)
(* no Close is between its delete and its clearing of the field.           *)
LEMMA LoadOwnership ==
    ASSUME Shape, Ownership, NEW g \in Goroutine, Load(g)
    PROVE  Ownership'
<1> USE HandlesAssumption
<1> DEFINE h == call[g].on
<1>1. /\ call'[g].on = h /\ call'[g].op = call[g].op /\ call[g].step = "load"
      /\ call'[g].ptr = field[h] /\ call'[g].step = IF field[h] = Nil THEN "return" ELSE "run"
      /\ \A o \in Goroutine : o # g => call'[o] = call[o]
      /\ UNCHANGED <<field, object>>
  BY DEF Load, At, Shape, TypeOK
<1>2. h \in Handle /\ h # Nil
  BY <1>1 DEF Shape, CallShape, Handle
<1>3. field[h] # Nil => object[field[h]] = h
  <2>1. ASSUME NEW o \in Goroutine, call[o].on = h, call[o].step = "clear" PROVE FALSE
    BY <2>1, <1>1, <1>2 DEF Shape, CallShape, Ownership, CallsApart
  <2> QED
    BY <2>1, <1>2 DEF Ownership, FieldHasObject
<1>4. CallsApart'
  BY <1>1 DEF Ownership, CallsApart
<1>5. FieldHasObject'
  BY <1>1 DEF Ownership, FieldHasObject
<1>6. ObjectHasField'
  BY <1>1 DEF Ownership, ObjectHasField, Making
<1>7. StepsOwnObject'
  BY <1>1, <1>3 DEF Ownership, StepsOwnObject, MakingSteps
<1> QED
  BY <1>4, <1>5, <1>6, <1>7 DEF Ownership

(* Two calls that overlapped stay recorded, so a step that ends without    *)
(* misuse began without.                                                   *)
LEMMA MisuseStays == [Next]_vars /\ ~ misused' /\ Shape => ~ misused
<1> SUFFICES ASSUME [Next]_vars, Shape, misused = TRUE PROVE misused' = TRUE
  BY DEF Shape, TypeOK
<1>1. CASE \E g \in Goroutine, h \in Handle : NewWriter(g, h) \/ NewReader(g, h)
  BY <1>1 DEF NewWriter, NewReader
<1>2. CASE \E g \in Goroutine, h \in Handle :
              Write(g, h) \/ Build(g, h) \/ Contains(g, h) \/ Close(g, h)
  BY <1>2 DEF Write, Build, Contains, Close, Enter
<1>3. CASE \E g \in Goroutine :
              \/ Load(g) \/ Run(g) \/ CopyResults(g) \/ Return(g)
              \/ NewArray(g, "sizes", "bytes") \/ NewArray(g, "bytes", "copy")
              \/ ReadHeader(g) \/ AssignFilter(g) \/ DropTemporary(g) \/ ReadColumns(g)
              \/ Delete(g) \/ ClearField(g)
  BY <1>3 DEF Load, Run, CopyResults, Return, NewArray, ReadHeader, AssignFilter,
     DropTemporary, ReadColumns, Delete, ClearField
<1> QED
  BY <1>1, <1>2, <1>3 DEF Next, vars

(* The ownership of objects, action by action.                             *)
LEMMA NextOwnership == Shape /\ Ownership /\ ~ misused' /\ [Next]_vars => Ownership'
<1> SUFFICES ASSUME Shape, Ownership, ~ misused', [Next]_vars PROVE Ownership'
  OBVIOUS
<1>1. ASSUME NEW g \in Goroutine, NEW h \in Handle,
             Write(g, h) \/ Build(g, h) \/ Contains(g, h) \/ Close(g, h)
      PROVE  Ownership'
  BY <1>1, EnterOwnership DEF Write, Build, Contains, Close, Buffer
<1>2. ASSUME NEW g \in Goroutine, CopyResults(g) PROVE Ownership'
  <2>1. /\ call'[g].on = call[g].on /\ call'[g].step = "return" /\ call[g].step = "copy"
        /\ call'[g].op = call[g].op
        /\ \A o \in Goroutine : o # g => call'[o] = call[o]
        /\ UNCHANGED <<field, object>>
    BY <1>2 DEF CopyResults, At, Shape, TypeOK
  <2>2. CallsApart' /\ FieldHasObject'
    BY <2>1 DEF Ownership, CallsApart, FieldHasObject
  <2>3. ObjectHasField'
    BY <2>1 DEF Ownership, ObjectHasField, Making
  <2>4. StepsOwnObject'
    BY <2>1 DEF Ownership, StepsOwnObject, MakingSteps
  <2> QED
    BY <2>2, <2>3, <2>4 DEF Ownership
<1>3. ASSUME NEW g \in Goroutine,
             NewArray(g, "sizes", "bytes") \/ NewArray(g, "bytes", "copy")
      PROVE  Ownership'
  <2>1. CASE Goto(g, "return")
    <3>1. call[g].step \in {"sizes", "bytes"} /\ UNCHANGED <<field, made, object, misused>>
      BY <1>3 DEF NewArray, At
    <3> QED
      BY <2>1, <3>1, QuietOwnership
  <2>2. CASE \E s \in {"sizes", "bytes"}, next \in {"bytes", "copy"} :
                call' = [call EXCEPT ![g].held = @ \cup {s}, ![g].step = next]
    <3>1. /\ call'[g].on = call[g].on /\ call'[g].step \in {"bytes", "copy"}
          /\ call'[g].op = call[g].op
          /\ \A o \in Goroutine : o # g => call'[o] = call[o]
      BY <2>2 DEF Shape, TypeOK
    <3>2. call[g].step \in {"sizes", "bytes"} /\ UNCHANGED <<field, object>>
      BY <1>3 DEF NewArray, At
    <3>3. CallsApart' /\ FieldHasObject'
      BY <3>1, <3>2 DEF Ownership, CallsApart, FieldHasObject
    <3>4. ObjectHasField'
      BY <3>1, <3>2 DEF Ownership, ObjectHasField, Making
    <3>5. StepsOwnObject'
      BY <3>1, <3>2 DEF Ownership, StepsOwnObject, MakingSteps
    <3> QED
      BY <3>3, <3>4, <3>5 DEF Ownership
  <2> QED
    BY <1>3, <2>1, <2>2 DEF NewArray
<1>4. ASSUME NEW g \in Goroutine, Run(g) \/ AssignFilter(g) \/ DropTemporary(g)
      PROVE  Ownership'
  <2>1. CASE Run(g)
    BY <2>1, QuietOwnership DEF Run, At
  <2>2. CASE AssignFilter(g)
    BY <2>2, QuietOwnership DEF AssignFilter, At, MakingSteps
  <2>3. CASE DropTemporary(g)
    BY <2>3, QuietOwnership DEF DropTemporary, At, MakingSteps
  <2> QED
    BY <1>4, <2>1, <2>2, <2>3
<1>5. ASSUME NEW g \in Goroutine, ReadHeader(g) PROVE Ownership'
  <2>1. call[g].step \in MakingSteps /\ UNCHANGED <<field, made, misused>>
    BY <1>5 DEF ReadHeader, At, MakingSteps
  <2>2. CASE Goto(g, "filter") /\ UNCHANGED object
    BY <2>1, <2>2, QuietOwnership DEF MakingSteps
  <2>3. CASE Abandon(g)
    BY <2>1, <2>3, AbandonOwnership
  <2> QED
    BY <1>5, <2>2, <2>3 DEF ReadHeader
<1>6. ASSUME NEW g \in Goroutine, ReadColumns(g) PROVE Ownership'
  <2>1. call[g].step \in MakingSteps
    BY <1>6 DEF ReadColumns, At, MakingSteps
  <2> QED
    BY <1>6, <2>1, AbandonOwnership, OpenOwnership DEF ReadColumns
<1>7. CASE UNCHANGED vars
  BY <1>7 DEF vars, Ownership, CallsApart, FieldHasObject, ObjectHasField, StepsOwnObject, Making
<1> QED
  BY <1>1, <1>2, <1>3, <1>4, <1>5, <1>6, <1>7, NewOwnership, LoadOwnership,
     EndOwnership, DeleteOwnership DEF Next

(* The invariant is kept by every step.                                    *)
LEMMA NextHInv == HInv /\ [Next]_vars => HInv'
  BY NextShape, MisuseStays, NextOwnership DEF HInv

-----------------------------------------------------------------------------
(* In every reachable state the calls are where their steps say, and as    *)
(* long as callers keep calls apart, handles and objects correspond.       *)
THEOREM HandlesInvariant == Spec => []HInv
<1> QED
  BY InitHInv, NextHInv, PTL DEF Spec

(* The C functions' null tests: no method of a C++ class is ever started   *)
(* on a null pointer, however the goroutines use the handles.              *)
THEOREM HandlesTypeOK == Spec => []TypeOK
<1>1. HInv => TypeOK
  BY DEF HInv, Shape
<1> QED
  BY <1>1, HandlesInvariant, PTL

(* Calls that are kept apart use, and Close deletes, the object their own  *)
(* handle got from New, however often addresses are given out again.       *)
THEOREM OwnObjectUsed == Spec => []UsesOwnObject
<1>1. HInv => UsesOwnObject
  <2> SUFFICES ASSUME HInv, ~ misused, NEW g \in Goroutine
      PROVE  /\ call[g].step = "run" => Own(g)
             /\ call[g].step = "delete" =>
                   field[call[g].on] # Nil /\ object[field[call[g].on]] = call[g].on
    BY DEF UsesOwnObject
  <2>1. call[g].step = "run" => call[g].ptr # Nil
    BY HandlesAssumption DEF HInv, Shape, TypeOK
  <2> QED
    BY <2>1 DEF HInv, Ownership, StepsOwnObject, Own
<1> QED
  BY <1>1, HandlesInvariant, PTL

(* Under the same condition every C++ object can be reached from its handle*)
(* or from the constructor that is making it.                              *)
THEOREM NoneLost == Spec => []NoObjectLost
<1>1. HInv => NoObjectLost
  BY DEF HInv, Ownership, ObjectHasField, NoObjectLost
<1> QED
  BY <1>1, HandlesInvariant, PTL

(* Only an array of sizes can be left behind, whatever the callers do.     *)
THEOREM OnlySizes == Spec => []OnlySizesLeak
<1> DEFINE I == HeldIsSizes /\ OnlySizesLeak
<1>1. Init => I
  BY DEF Init, HeldIsSizes, OnlySizesLeak, NoCall
<1>2. TypeOK /\ I /\ [Next]_vars => I'
  <2> SUFFICES ASSUME TypeOK, I, [Next]_vars PROVE I'
    OBVIOUS
  <2>1. HeldIsSizes'
    BY NextHeld
  <2>2. ASSUME NEW g \in Goroutine, Return(g) PROVE OnlySizesLeak'
    BY <2>2 DEF Return, At, HeldIsSizes, OnlySizesLeak
  <2>3. CASE \E g \in Goroutine, h \in Handle :
                \/ NewWriter(g, h) \/ NewReader(g, h)
                \/ Write(g, h) \/ Build(g, h) \/ Contains(g, h) \/ Close(g, h)
    BY <2>1, <2>3, ZenonT(30) DEF NewWriter, NewReader, Write, Build, Contains, Close, Enter,
       OnlySizesLeak
  <2>4. CASE \E g \in Goroutine :
                \/ Load(g) \/ Run(g) \/ CopyResults(g)
                \/ NewArray(g, "sizes", "bytes") \/ NewArray(g, "bytes", "copy")
                \/ ReadHeader(g) \/ AssignFilter(g) \/ DropTemporary(g) \/ ReadColumns(g)
                \/ Delete(g) \/ ClearField(g)
    BY <2>1, <2>4 DEF Load, Run, CopyResults, NewArray, ReadHeader, AssignFilter,
       DropTemporary, ReadColumns, Delete, ClearField, OnlySizesLeak
  <2>5. CASE UNCHANGED vars
    BY <2>1, <2>5 DEF vars, OnlySizesLeak
  <2> QED
    BY <2>1, <2>2, <2>3, <2>4, <2>5 DEF Next
<1>3. I => OnlySizesLeak
  OBVIOUS
<1> QED
  BY <1>1, <1>2, <1>3, HandlesTypeOK, PTL DEF Spec
=============================================================================
