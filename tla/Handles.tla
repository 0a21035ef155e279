------------------------------ MODULE Handles -------------------------------
(***************************************************************************)
(* The Go wrapper over the C wrapper over the two C++ classes, as several  *)
(* goroutines use it: who owns the C++ objects, the C strings, the result  *)
(* buffers and the filter's trie, from New to Close.                       *)
(*                                                                         *)
(* A Go handle holds the address of a C++ object.  Nothing is locked; the  *)
(* field is read once per call (twice by Close), and an address that was   *)
(* freed is given out again.  The end of the process, by a signal or by a  *)
(* corrupted heap, ends the behaviour.                                     *)
(***************************************************************************)
EXTENDS Integers, FiniteSets

CONSTANTS Goroutine,
          Writer, Reader, \* the handles that are made, each one once
          Address,        \* where the allocator may put an object
          Nil             \* nil, nullptr, nobody

ASSUME HandlesAssumption ==
    /\ Writer \cap Reader = {}
    /\ Nil \notin Address \cup Writer \cup Reader

Handle == Writer \cup Reader
Buffer == {"string", "sizes", "bytes"}
Step == {"idle", "header", "filter", "temporary", "columns",
         "load", "run", "sizes", "bytes", "copy", "delete", "clear", "return"}

VARIABLES field,  \* handle -> r.writer or r.reader
          made,   \* the handles that New has returned
          object, \* address -> the handle whose C++ object lies there
          trie,   \* reader -> the trie its CellFilter points to
          call,   \* goroutine -> the call it is in
          leaked, \* kinds of C buffers that were never freed
          misused,\* two calls on one handle overlapped, not both Contains
          alive   \* the process runs

vars == <<field, made, object, trie, call, leaked, misused, alive>>

NoCall == [op |-> "none", on |-> Nil, step |-> "idle", ptr |-> Nil,
           held |-> {}, deferred |-> {}]

Init == /\ field = [h \in Handle |-> Nil]
        /\ made = {}
        /\ object = [a \in Address |-> Nil]
        /\ trie = [h \in Reader |-> "none"]
        /\ call = [g \in Goroutine |-> NoCall]
        /\ leaked = {}
        /\ misused = FALSE
        /\ alive = TRUE

(* The step of g's call, and g's next one.                                 *)
At(g, step) == alive /\ call[g].step = step
Goto(g, step) == call' = [call EXCEPT ![g].step = step]

(* A C++ object that is used or deleted must be there; if not, the process *)
(* dies or goes on.                                                        *)
Undefined(bad) == alive' \in (IF bad THEN BOOLEAN ELSE {TRUE})

-----------------------------------------------------------------------------
(* The calls.  An operation on a handle needs a handle: New has returned.  *)
Enter(g, h, op, step, strings) ==
    /\ At(g, "idle") /\ h \in made
    /\ call' = [call EXCEPT ![g] = [op |-> op, on |-> h, step |-> step, ptr |-> Nil,
                                    held |-> strings, deferred |-> strings]]
    /\ misused' = (misused \/ \E o \in Goroutine :
                      call[o].on = h /\ (op # "Contains" \/ call[o].op # "Contains"))
    /\ UNCHANGED <<field, made, object, trie, leaked, alive>>

(* NewRoaringGeoMapWriter.  Without memory it returns an error.            *)
NewWriter(g, h) ==
    /\ At(g, "idle") /\ h \in Writer \ made
    /\ \E a \in Address :
          /\ object[a] = Nil
          /\ object' = [object EXCEPT ![a] = h]
          /\ field' = [field EXCEPT ![h] = a]
    /\ made' = made \cup {h}
    /\ UNCHANGED <<trie, call, leaked, misused, alive>>

(* Write: a cover that is not valid is refused before anything is          *)
(* allocated.  The first element of an empty one panics, after which the   *)
(* deferred free runs.  Contains takes that element first of all.          *)
Write(g, h) == h \in Writer /\ \/ Enter(g, h, "Write", "load", {"string"})
                               \/ Enter(g, h, "Write", "return", {"string"})
Build(g, h) == h \in Writer /\ Enter(g, h, "Build", "load", {"string"})
Contains(g, h) == h \in Reader /\ \/ Enter(g, h, "Contains", "load", {})
                                  \/ Enter(g, h, "Contains", "return", {})

(* A faulty variant: the C function does not test its handle.              *)
LoadUntested(g) ==
    /\ At(g, "load")
    /\ call' = [call EXCEPT ![g].ptr = field[call[g].on], ![g].step = "run"]
    /\ UNCHANGED <<field, made, object, trie, leaked, misused, alive>>

(* r.writer or r.reader is read and passed to C, which tests it for null.  *)
Load(g) ==
    /\ At(g, "load")
    /\ LET ptr == field[call[g].on]
       IN  call' = [call EXCEPT ![g].ptr = ptr,
                                ![g].step = IF ptr = Nil THEN "return" ELSE "run"]
    /\ UNCHANGED <<field, made, object, trie, leaked, misused, alive>>

(* The C++ operation, from its first to its last use of the object; an     *)
(* exception is caught by the C function, which returns an error.  The     *)
(* query of a reader asks the trie.                                        *)
Own(g) == call[g].ptr # Nil /\ object[call[g].ptr] = call[g].on
Run(g) ==
    /\ At(g, "run")
    /\ Undefined(~ Own(g) \/ (call[g].op = "Contains" /\ trie[call[g].on] = "freed"))
    /\ \/ Goto(g, "return")
       \/ call[g].op = "Contains" /\ Goto(g, "sizes")
    /\ UNCHANGED <<field, made, object, trie, leaked, misused>>

(* Contains copies its result to two new arrays; there may be no memory    *)
(* for the first, or for the second, when the first stays where it is.     *)
NewArray(g, step, next) ==
    /\ At(g, step)
    /\ \/ call' = [call EXCEPT ![g].held = @ \cup {step}, ![g].step = next]
       \/ Goto(g, "return")
    /\ UNCHANGED <<field, made, object, trie, leaked, misused, alive>>

(* A faulty variant: the array of the bytes is not freed.                  *)
CopyResultsKeepingBytes(g) ==
    /\ At(g, "copy")
    /\ call' = [call EXCEPT ![g].deferred = @ \cup {"sizes"}, ![g].step = "return"]
    /\ UNCHANGED <<field, made, object, trie, leaked, misused, alive>>

(* Back in Go: both arrays are to be freed on return; cBytesToGo copies.   *)
CopyResults(g) ==
    /\ At(g, "copy")
    /\ call' = [call EXCEPT ![g].deferred = @ \cup {"sizes", "bytes"}, ![g].step = "return"]
    /\ UNCHANGED <<field, made, object, trie, leaked, misused, alive>>

(* The Go function ends and runs what it deferred.                         *)
Return(g) ==
    /\ At(g, "return")
    /\ leaked' = leaked \cup (call[g].held \ call[g].deferred)
    /\ call' = [call EXCEPT ![g] = NoCall]
    /\ UNCHANGED <<field, made, object, trie, misused, alive>>

-----------------------------------------------------------------------------
(* NewRoaringGeoMapReader and the constructor of RoaringGeoMapReader.      *)
NewReader(g, h) ==
    /\ At(g, "idle") /\ h \in Reader \ made
    /\ \A o \in Goroutine : call[o].on # h
    /\ \E a \in Address :
          /\ object[a] = Nil
          /\ object' = [object EXCEPT ![a] = h]
          /\ call' = [call EXCEPT ![g] = [op |-> "New", on |-> h, step |-> "header", ptr |-> a,
                                          held |-> {"string"}, deferred |-> {"string"}]]
    /\ UNCHANGED <<field, made, trie, leaked, misused, alive>>

(* No file, no memory, a header that points outside the file: the memory   *)
(* of the object is freed and New returns an error.                        *)
Abandon(g) == /\ object' = [object EXCEPT ![call[g].ptr] = Nil]
              /\ Goto(g, "return")

ReadHeader(g) ==
    /\ At(g, "header")
    /\ \/ Goto(g, "filter") /\ UNCHANGED object
       \/ Abandon(g)
    /\ UNCHANGED <<field, made, trie, leaked, misused, alive>>

(* CellFilter::deserialize makes a trie and a temporary that points to it; *)
(* the default assignment copies the pointer ...                           *)
AssignFilter(g) ==
    /\ At(g, "filter")
    /\ trie' = [trie EXCEPT ![call[g].on] = "live"]
    /\ Goto(g, "temporary")
    /\ UNCHANGED <<field, made, object, leaked, misused, alive>>

(* ... and the temporary's destructor deletes the trie.                    *)
DropTemporary(g) ==
    /\ At(g, "temporary")
    /\ trie' = [trie EXCEPT ![call[g].on] = "freed"]
    /\ Goto(g, "columns")
    /\ UNCHANGED <<field, made, object, leaked, misused, alive>>

(* The columns are found, or an exception destroys the members made so far:*)
(* the trie is deleted a second time.                                      *)
ReadColumns(g) ==
    /\ At(g, "columns")
    /\ \/ /\ field' = [field EXCEPT ![call[g].on] = call[g].ptr]
          /\ made' = made \cup {call[g].on}
          /\ Goto(g, "return")
          /\ UNCHANGED <<object, trie, alive>>
       \/ /\ Undefined(trie[call[g].on] # "live")
          /\ trie' = [trie EXCEPT ![call[g].on] = "freed"]
          /\ Abandon(g)
          /\ UNCHANGED <<field, made>>
    /\ UNCHANGED <<leaked, misused>>

-----------------------------------------------------------------------------
(* Faulty variants: the field is cleared before it is read for Delete, and *)
(* it is not cleared at all.                                               *)
CloseClearingFirst(g, h) ==
    /\ field[h] # Nil
    /\ At(g, "idle") /\ h \in made
    /\ field' = [field EXCEPT ![h] = Nil]
    /\ call' = [call EXCEPT ![g] = [NoCall EXCEPT !.op = "Close", !.on = h, !.step = "delete"]]
    /\ misused' = (misused \/ \E o \in Goroutine : call[o].on = h)
    /\ UNCHANGED <<made, object, trie, leaked, alive>>
ClearFieldNever(g) ==
    /\ At(g, "clear")
    /\ call' = [call EXCEPT ![g] = NoCall]
    /\ UNCHANGED <<field, made, object, trie, leaked, misused, alive>>

(* Close: a field that is nil is left alone.                               *)
Close(g, h) == field[h] # Nil /\ Enter(g, h, "Close", "delete", {})

(* Delete: the field is read again.  delete of null does nothing, of what  *)
(* another one owns takes it away from that one, and of a reader's filter  *)
(* frees the trie again.                                                   *)
Delete(g) ==
    /\ At(g, "delete")
    /\ LET h   == call[g].on
           ptr == field[h]
       IN  /\ Undefined(ptr # Nil /\ (object[ptr] # h \/ (h \in Reader /\ trie[h] = "freed")))
           /\ object' = [a \in Address |-> IF a = ptr THEN Nil ELSE object[a]]
           /\ trie' = [r \in Reader |-> IF r = h /\ ptr # Nil THEN "freed" ELSE trie[r]]
    /\ Goto(g, "clear")
    /\ UNCHANGED <<field, made, leaked, misused>>

ClearField(g) ==
    /\ At(g, "clear")
    /\ field' = [field EXCEPT ![call[g].on] = Nil]
    /\ call' = [call EXCEPT ![g] = NoCall]
    /\ UNCHANGED <<made, object, trie, leaked, misused, alive>>

Next == \E g \in Goroutine :
    \/ \E h \in Handle : \/ NewWriter(g, h) \/ NewReader(g, h) \/ Write(g, h)
                         \/ Build(g, h) \/ Contains(g, h) \/ Close(g, h)
    \/ Load(g) \/ Run(g) \/ CopyResults(g) \/ Return(g)
    \/ NewArray(g, "sizes", "bytes") \/ NewArray(g, "bytes", "copy")
    \/ ReadHeader(g) \/ AssignFilter(g) \/ DropTemporary(g) \/ ReadColumns(g)
    \/ Delete(g) \/ ClearField(g)

Spec == Init /\ [][Next]_vars

-----------------------------------------------------------------------------
(* Types; a C++ method never runs on a null pointer (the C functions' tests)*)
TypeOK == /\ field \in [Handle -> Address \cup {Nil}]
          /\ made \subseteq Handle
          /\ object \in [Address -> Handle \cup {Nil}]
          /\ trie \in [Reader -> {"none", "live", "freed"}]
          /\ call \in [Goroutine ->
                [op: {"none", "New", "Write", "Build", "Contains", "Close"},
                 on: Handle \cup {Nil}, step: Step, ptr: Address \cup {Nil},
                 held: SUBSET Buffer, deferred: SUBSET Buffer]]
          /\ \A g \in Goroutine : call[g].step = "run" => call[g].ptr \in Address
          /\ leaked \subseteq Buffer
          /\ misused \in BOOLEAN /\ alive \in BOOLEAN

(* As long as callers keep two calls on one handle apart, unless both are  *)
(* Contains, C++ runs on and deletes only the object that the call's own   *)
(* handle got from New, also after Close and when its address is in use    *)
(* again: null tests, Close's order of reading, deleting and clearing.     *)
UsesOwnObject ==
    ~ misused => \A g \in Goroutine :
        /\ call[g].step = "run" => Own(g)
        /\ call[g].step = "delete" =>
              field[call[g].on] # Nil /\ object[field[call[g].on]] = call[g].on

(* A constructor is at work for h at address a.                            *)
Making(g, h, a) == /\ call[g].step \in {"header", "filter", "temporary", "columns"}
                   /\ call[g].on = h /\ call[g].ptr = a

(* Under the same condition no C++ object is lost: each can be reached from*)
(* its handle or is being made, so Close can still delete it.              *)
NoObjectLost ==
    ~ misused => \A a \in Address : object[a] # Nil =>
        \/ field[object[a]] = a
        \/ \E g \in Goroutine : Making(g, object[a], a)

(* Whatever the callers do, of all C strings and result arrays only the    *)
(* array of sizes can be left behind (C wrapper, no memory for the bytes): *)
(* error returns, panics and exceptions free the rest, in Contains and New.*)
OnlySizesLeak == leaked \subseteq {"sizes"}

-----------------------------------------------------------------------------
(* The trie of all cells that an open reader asks (README, step 2) is      *)
(* there: the default assignment of a CellFilter leaves it with a pointer  *)
(* to what the temporary's destructor has deleted.                         *)
OpenReaderHasFilter ==
    \A h \in Reader : field[h] # Nil /\ (\A g \in Goroutine : call[g].on # h)
                        => trie[h] = "live"
=============================================================================
