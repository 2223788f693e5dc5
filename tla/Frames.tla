------------------------------- MODULE Frames -------------------------------
(***************************************************************************)
(* The Java stack of one thread and the interpreter's registers:           *)
(* interpreter.c, the calls, the returns, the native and the synchronized  *)
(* methods, exceptions, and the calls of interpreter() made by native code *)
(* and by class initialization.  Words grow upwards from address 0 (sp,    *)
(* locals), frames grow downwards from StackSize (fp).  What the bytecode  *)
(* between two of these events does is one step, Compute: it leaves the    *)
(* operand stack at any depth the method declares (Interpreter.tla has the *)
(* opcodes).  A program counter is one of the places where the code        *)
(* behaves differently: the dummy codes of method.c ("load", "native",     *)
(* "halt"), inside a native function, the MONITORENTER_SPECIAL that starts *)
(* a synchronized method, and its body in ("try") and outside ("body") the *)
(* range of an exception handler.  Three things go wrong in the code, and  *)
(* the model lets them: a handler that starts with the locals of a callee  *)
(* stops it (mode "astray"), as what that handler's code does to the words *)
(* of other methods is anything; a monitor left more often than entered is *)
(* recorded (unpaired); and a nested call writes over the arguments of the *)
(* native function that makes it (Fits).  Bytecode that stores into the    *)
(* local holding this, which no compiler emits, is left out.               *)
(***************************************************************************)
EXTENDS Integers, Sequences, FiniteSets

CONSTANTS Methods,      \* the methods, among them Main and Halt
          Main, Halt,   \* the first method of the thread and halt_method
          Info,         \* per method: sync, native, static, args, ret,
                        \* maxLocals, maxStack and the lock it would take
          Nested,       \* the methods native code and <clinit> calls start
          StackSize,    \* words of the thread's stack
          FrameWords    \* words of a stack_frame_t

Places == {"load", "native", "innative", "enter", "body", "try", "halt"}
Java   == {"body", "try"}
Locks  == {Info[m].lock : m \in Methods}

ASSUME FramesAssumption ==
    /\ Halt \in Methods /\ Main \in Methods \ {Halt} /\ Nested \subseteq Methods \ {Halt}
    /\ \A m \in Methods :
         /\ {Info[m].sync, Info[m].native, Info[m].static} \subseteq BOOLEAN
         /\ {Info[m].args, Info[m].ret, Info[m].maxLocals, Info[m].maxStack} \subseteq Nat
         /\ Info[m].native => Info[m].maxLocals = 0 /\ Info[m].maxStack = 0
    /\ ~Info[Halt].sync /\ Info[Halt].maxLocals = 0 /\ Info[Halt].maxStack = 0
    /\ StackSize \in Nat /\ FrameWords \in Nat
    /\ Info[Main].maxLocals + Info[Main].maxStack + 2 * FrameWords =< StackSize

VARIABLES
    frames,     \* stack_frame_t, top first: method, place (pc), locals
    sp, locals, \* the C variables of the running interpreter()
    threadSp,   \* thread->sp
    exc,        \* thread->exception: "none", "thrown" or "ims"
    mode,       \* "run", at exception_handler ("unwind", or "null" for a call
                \* with a null receiver), or at an end: "fatal", "astray", "done"
    outer,      \* sp and locals of the interpreter()s below this one
    linked,     \* methods whose code is no longer load_method_code
    holds,      \* per lock, how often this thread has entered its monitor
    unpaired    \* history: locks an exit without an entry has been made for

vars == <<frames, sp, locals, threadSp, exc, mode, outer, linked, holds, unpaired>>

Top     == frames[1]
Method  == Info[Top.m]
FpAddr  == StackSize - FrameWords * Len(frames)
Base    == Top.locals + Method.maxLocals
At(places) == mode = "run" /\ Top.pc \in places
Moved(pc)  == [frames EXCEPT ![1].pc = pc]

(* What method->code points at once the method is linked. *)
Code(m) == IF Info[m].native THEN "native"
           ELSE IF Info[m].sync THEN "enter" ELSE "body"
Entry(m) == IF m \in linked THEN Code(m) ELSE "load"
Frame(m, l) == [m |-> m, pc |-> Entry(m), locals |-> l]
HaltFrame(l) == [m |-> Halt, pc |-> "halt", locals |-> l]

(* interpreter() of the thread's first method: its arguments are already   *)
(* in the first words of the stack.                                        *)
Init ==
    /\ frames = <<[m |-> Main, pc |-> "load", locals |-> 0], HaltFrame(0)>>
    /\ sp = Info[Main].maxLocals /\ locals = 0 /\ threadSp = sp
    /\ exc = "none" /\ mode = "run" /\ outer = <<>> /\ linked = {}
    /\ holds = [l \in Locks |-> 0] /\ unpaired = {}

(* Straight bytecode: branches in and out of the try block, pushes, pops.  *)
(* A method with a handler has room for the exception.                     *)
Compute ==
    /\ At(Java)
    /\ \/ frames' = Moved("body")
       \/ Method.maxStack > 0 /\ frames' = Moved("try")
    /\ sp' \in Base .. Base + Method.maxStack
    /\ UNCHANGED <<locals, threadSp, exc, mode, outer, linked, holds, unpaired>>

(* The part INVOKEVIRTUAL, INVOKESPECIAL, INVOKESTATIC, INVOKEINTERFACE    *)
(* and INVOKESUPER share once the method is chosen (ClassTables).  The    *)
(* verifier has made sure the arguments are there and the result will fit. *)
Callable(m) ==
    /\ At(Java) /\ m # Halt
    /\ Info[m].args =< sp - Base
    /\ sp - Info[m].args + Info[m].ret =< Base + Method.maxStack
Overflows(l, m, count) ==
    l + Info[m].maxLocals + Info[m].maxStack > FpAddr - count * FrameWords
Invoke(m) ==
    /\ Callable(m)
    /\ locals' = sp - Info[m].args
    /\ IF Overflows(locals', m, 1)
       THEN mode' = "fatal" /\ UNCHANGED <<frames, sp>>
       ELSE /\ frames' = <<Frame(m, locals')>> \o frames
            /\ sp' = locals' + Info[m].maxLocals
            /\ UNCHANGED mode
    /\ UNCHANGED <<threadSp, exc, outer, linked, holds, unpaired>>

(* throw_exception: the exception object is created with the frame of the  *)
(* failing instruction still on the stack.                                 *)
Raise(e) == exc' = e /\ mode' = "unwind"

(* The receiver is null: locals has already been moved to the arguments.   *)
InvokeNull(m) ==
    /\ Callable(m) /\ ~Info[m].static
    /\ locals' = sp - Info[m].args
    /\ threadSp' = sp
    /\ exc' = "thrown" /\ mode' = "null"
    /\ UNCHANGED <<frames, sp, outer, linked, holds, unpaired>>

Throw ==
    /\ At(Java)
    /\ threadSp' = sp
    /\ Raise("thrown")
    /\ UNCHANGED <<frames, sp, locals, outer, linked, holds, unpaired>>

(* monitor_exit() fails for a thread that does not own the monitor.        *)
ExitOk(l)   == holds[l] > 0
Exited(l)   == IF ExitOk(l) THEN [holds EXCEPT ![l] = @ - 1] ELSE holds
Entered(l)  == [holds EXCEPT ![l] = @ + 1]

(* The caller's frame is on top again, words of result at from.            *)
Pop(from, words) ==
    /\ frames' = Tail(frames)
    /\ sp' = from + words
    /\ locals' = frames[2].locals

(* Mutant. *)
MutReturn ==
    /\ At(Java) /\ Method.ret =< sp - Base
    /\ Pop(sp - Method.ret, Method.ret)
    /\ UNCHANGED <<threadSp, exc, mode, outer, linked, holds, unpaired>>
(* IRETURN .. RETURN, and the _MONITOREXIT forms of synchronized methods.  *)
Return ==
    /\ At(Java) /\ Method.ret =< sp - Base
    /\ Pop(locals, Method.ret)
    /\ UNCHANGED <<threadSp, exc, mode, outer, linked, holds, unpaired>>
ReturnPlain == ~Method.sync /\ Return
ReturnMonitorExit ==
    /\ At(Java) /\ Method.sync /\ Method.ret =< sp - Base
    /\ threadSp' = sp
    /\ holds' = Exited(Method.lock)
    /\ IF ExitOk(Method.lock)
       THEN Pop(locals, Method.ret) /\ UNCHANGED <<exc, mode>>
       ELSE Raise("ims") /\ UNCHANGED <<frames, sp, locals>>
    /\ UNCHANGED <<outer, linked, unpaired>>

MonitorEnterSpecial ==
    /\ At({"enter"})
    /\ threadSp' = sp
    /\ holds' = Entered(Method.lock)
    /\ frames' = Moved("body")
    /\ UNCHANGED <<sp, locals, exc, mode, outer, linked, unpaired>>

(* METHOD_LOAD: bcl_link_method().                                         *)
MethodLoad ==
    /\ At({"load"})
    /\ threadSp' = sp
    /\ linked' = linked \union {Top.m}
    /\ frames' = Moved(Code(Top.m))
    /\ UNCHANGED <<sp, locals, exc, mode, outer, holds, unpaired>>

(* INVOKE_NATIVE up to the call of the function: static natives see their  *)
(* arguments one word lower.                                               *)
Shift(f) == IF Info[f.m].static THEN 1 ELSE 0
Shifted(pc, l) == [frames EXCEPT ![1] = [m |-> Top.m, pc |-> pc, locals |-> l]]
NativeBegin ==
    /\ At({"native"})
    /\ threadSp' = sp
    /\ holds' = IF Method.sync THEN Entered(Method.lock) ELSE holds
    /\ frames' = Shifted("innative", Top.locals - Shift(Top))
    /\ UNCHANGED <<sp, locals, exc, mode, outer, linked, unpaired>>

(* ... and from its return on: e is the exception the function leaves.     *)
NativeEnd(e) ==
    LET back == Shifted("native", Top.locals + Shift(Top))
    IN  /\ At({"innative"})
        /\ e = exc \/ (exc = "none" /\ e = "thrown")
        /\ holds' = IF Method.sync THEN Exited(Method.lock) ELSE holds
        /\ IF Method.sync /\ ~ExitOk(Method.lock)
           THEN /\ Raise("ims") /\ frames' = back
                /\ sp' = locals + Method.ret /\ UNCHANGED locals
           ELSE IF e # "none"
           THEN /\ Raise(e) /\ frames' = back
                /\ sp' = locals + Method.ret /\ UNCHANGED locals
           ELSE Pop(locals, Method.ret) /\ UNCHANGED <<exc, mode>>
        /\ UNCHANGED <<threadSp, outer, linked, unpaired>>

(* prepare_for_call() of an interpreter() called from a native method, from *)
(* the class initialization a _PRELINK opcode starts, or from METHOD_LOAD  *)
(* of the main method.  Java code has saved its sp; in a native function   *)
(* thread->sp is where NativeBegin saved it, max_locals = 0 words above its *)
(* own arguments, that is at the first of them.                            *)
NestedCall(m) ==
    LET from == IF Top.pc = "innative" THEN threadSp ELSE sp
    IN  /\ At(Java \union {"innative"}) \/ (At({"load"}) /\ Top.m = Main)
        /\ exc = "none"
        /\ IF Overflows(from, m, 2)
           THEN mode' = "fatal" /\ UNCHANGED <<frames, sp, locals, threadSp, outer>>
           ELSE /\ frames' = <<Frame(m, from), HaltFrame(from)>> \o frames
                /\ outer' = <<[sp |-> sp, locals |-> locals]>> \o outer
                /\ locals' = from
                /\ threadSp' = from + Info[m].maxLocals
                /\ sp' = threadSp'
                /\ UNCHANGED mode
        /\ UNCHANGED <<exc, linked, holds, unpaired>>

(* HALT: interpreter() returns to its caller, which finds the exception in *)
(* the thread; thread->sp stays where the inner one left it.               *)
HaltCall ==
    /\ At({"halt"})
    /\ IF outer = <<>>
       THEN mode' = "done" /\ UNCHANGED <<frames, sp, locals, outer>>
       ELSE /\ frames' = Tail(frames)
            /\ sp' = outer[1].sp /\ locals' = outer[1].locals
            /\ outer' = Tail(outer)
            /\ mode' = IF exc # "none" /\ frames[2].pc # "innative"
                       THEN "unwind" ELSE "run"
    /\ UNCHANGED <<threadSp, exc, linked, holds, unpaired>>

(* exception_handler, a frame whose method handles the exception: the      *)
(* register locals is left alone.                                          *)
Unwinds == mode \in {"unwind", "null"}
HandlerFound ==
    /\ Unwinds /\ Top.pc \in {"try", "halt"}
    /\ mode' = IF locals = Top.locals THEN "run" ELSE "astray"
    /\ exc' = IF Top.m = Halt THEN exc ELSE "none"
    /\ frames' = IF Top.m = Halt THEN frames ELSE Moved("body")
    /\ sp' = Top.locals + Method.maxLocals + 1
    /\ UNCHANGED <<locals, threadSp, outer, linked, holds, unpaired>>

(* monitor_exit() of an unwound frame; when it fails, an exception of its  *)
(* own replaces the one thrown.                                            *)
LeaveMonitor(ok, left) ==
    /\ holds' = left
    /\ IF ok THEN UNCHANGED <<exc, threadSp>> ELSE exc' = "ims" /\ threadSp' = sp
(* A native function has left its monitor already (NativeEnd), and a method *)
(* still at METHOD_LOAD has not entered it.  The lock is looked up anew in  *)
(* the frame's first word, where a native's result, or a nested call, may   *)
(* have replaced the receiver by any word.                                  *)
LeaveAny ==
    \/ \E l \in Locks : LeaveMonitor(ExitOk(l), Exited(l)) /\ unpaired' = unpaired \union {l, Method.lock}
    \/ LeaveMonitor(FALSE, holds) /\ unpaired' = unpaired \union {Method.lock}
UnwindMonitor ==
    IF Top.pc = "native" /\ ~Method.static THEN LeaveAny
    ELSE /\ LeaveMonitor(ExitOk(Method.lock), Exited(Method.lock))
         /\ unpaired' = IF Top.pc \in Java THEN unpaired ELSE unpaired \union {Method.lock}

(* Mutant. *)
MutHandlerNotFound ==
    /\ Unwinds /\ Top.pc \notin {"try", "halt"}
    /\ IF Method.sync THEN UnwindMonitor ELSE UNCHANGED <<holds, exc, threadSp, unpaired>>
    /\ frames' = Tail(frames)
    /\ mode' = "unwind"
    /\ UNCHANGED <<sp, locals, outer, linked>>
(* Mutant. *)
MutExitNever ==
    /\ Unwinds /\ Top.pc \notin {"try", "halt"}
    /\ frames' = Tail(frames)
    /\ locals' = frames[2].locals
    /\ mode' = "unwind"
    /\ UNCHANGED <<sp, exc, threadSp, holds, outer, linked, unpaired>>
(* ... and a frame that does not: it leaves its monitor and is popped.     *)
HandlerNotFound ==
    /\ Unwinds /\ Top.pc \notin {"try", "halt"}
    /\ IF Method.sync THEN UnwindMonitor ELSE UNCHANGED <<holds, exc, threadSp, unpaired>>
    /\ frames' = Tail(frames)
    /\ locals' = frames[2].locals
    /\ mode' = "unwind"
    /\ UNCHANGED <<sp, outer, linked>>

Ended == mode \in {"done", "fatal", "astray"} /\ UNCHANGED vars

Next ==
    \/ Compute \/ Throw \/ ReturnPlain \/ ReturnMonitorExit
    \/ MonitorEnterSpecial \/ MethodLoad \/ NativeBegin \/ HaltCall
    \/ HandlerFound \/ HandlerNotFound \/ Ended
    \/ \E m \in Methods : Invoke(m) \/ InvokeNull(m)
    \/ \E m \in Nested : NestedCall(m)
    \/ \E e \in {"none", "thrown", "ims"} : NativeEnd(e)

Spec == Init /\ [][Next]_vars
-----------------------------------------------------------------------------
(* A frame's locals as its own function sees them, the shift of a running  *)
(* native undone, and where its operand stack begins and ends.             *)
LowOf(f) == f.locals + IF f.pc = "innative" THEN Shift(f) ELSE 0
First(f) == LowOf(f) + Info[f.m].maxLocals
Last(f)  == First(f) + Info[f.m].maxStack

(* The words and the frames of the stack keep to themselves: every frame   *)
(* starts above the locals of the ones below it, whose operands it may not *)
(* run over except for its arguments, and what the running method may      *)
(* still push ends below the frames, which grow from the other end.  The   *)
(* arguments of a native, which has no locals, are not among these words:  *)
(* a frame above a native function starts at the first of them.            *)
Fits ==
    /\ \A i, j \in 1 .. Len(frames) : i < j => First(frames[j]) =< LowOf(frames[i])
    /\ Last(Top) =< FpAddr

(* While the method on top runs, the registers the bytecode uses describe  *)
(* its own frame: locals is the frame's, sp lies in its operand stack.  A  *)
(* handler, a return or a nested interpreter() that restores one of them   *)
(* wrongly lets the method read or write the words of another one.  Every  *)
(* exception but that of a null receiver in the frame of the handler also  *)
(* finds the locals of the handler's frame in the register.                *)
Registers ==
    /\ Fits
    /\ mode = "run" /\ Top.pc # "halt" => locals = LowOf(Top) /\ sp \in First(Top) .. Last(Top)
    /\ mode = "unwind" /\ Top.pc = "try" => locals = LowOf(Top)

(* A frame whose method is synchronized and has entered its monitor l.     *)
Inside(f, l) ==
    Info[f.m].sync /\ Info[f.m].lock = l /\ f.pc \notin {"load", "native", "enter"}
Entries(s, l) == Cardinality({i \in 1 .. Len(s) : Inside(s[i], l)})

(* The thread never holds a monitor more often than synchronized methods on *)
(* its stack have entered it, so none stays locked behind them, and holds it *)
(* exactly as often, and no exception is replaced by                        *)
(* IllegalMonitorStateException, until one of the two exits without an entry *)
(* is made: that of a synchronized native that throws, and that of a first  *)
(* method whose class cannot be initialized.                                *)
Balanced ==
    /\ \A l \in Locks :
         /\ holds[l] =< Entries(frames, l)
         /\ l \notin unpaired => holds[l] = Entries(frames, l)
    /\ exc = "ims" => unpaired # {}

(* A method that returns hands its caller the operand stack of the call,   *)
(* arguments replaced by the result, and the caller's own locals.          *)
Resumes ==
    [][ mode = "run" /\ mode' = "run" /\ Top.m # Halt /\ Len(frames') < Len(frames)
        => /\ sp' = LowOf(Top) + Method.ret
           /\ frames' = Tail(frames) /\ locals' = frames'[1].locals ]_vars

-----------------------------------------------------------------------------
(* The inductive invariant, in parts.  A stack is well formed: what may lie *)
(* under what, at which place of its code, and with how much room.  A caller *)
(* waits in its body with room for the result; under a halt frame is who   *)
(* called interpreter().                                                   *)
FrameSet == [m : Methods, pc : Places, locals : Int]
FrameOk(f) ==
    /\ f.m = Halt <=> f.pc = "halt"
    /\ f.pc = "enter" => Info[f.m].sync
    /\ f.pc = "try" => Info[f.m].maxStack > 0
    /\ LowOf(f) >= 0
Waits(f, g) ==
    IF g.m = Halt
    THEN f.pc \in Java \union {"innative", "load"}
    ELSE f.pc \in Java \union {"halt"} /\ (f.m # Halt => LowOf(g) + Info[g.m].ret =< Last(f))
Stack(s) ==
    /\ s \in Seq(FrameSet) /\ s # <<>> /\ s[Len(s)].m = Halt
    /\ \A i \in 1 .. Len(s) :
         FrameOk(s[i]) /\ Last(s[i]) =< StackSize - FrameWords * (Len(s) - i + 1)
    /\ \A i \in 1 .. Len(s) - 1 : Waits(s[i + 1], s[i])
    /\ \A i, j \in 1 .. Len(s) : i < j => First(s[j]) =< LowOf(s[i])

(* Each interpreter() further out has left its halt frame at pos[k], the   *)
(* innermost first, and its registers describe the frame below that.       *)
Registered(o, f) == o.locals = LowOf(f) /\ o.sp \in First(f) .. Last(f)
Saved(s, out) ==
    \E pos \in [1 .. Len(out) -> 1 .. Len(s) - 1] :
        /\ \A k \in 1 .. Len(out) - 1 : pos[k] < pos[k + 1]
        /\ \A i \in 1 .. Len(s) - 1 : s[i].m = Halt => \E k \in 1 .. Len(out) : pos[k] = i
        /\ \A k \in 1 .. Len(out) : s[pos[k]].m = Halt /\ Registered(out[k], s[pos[k] + 1])

RegistersInv ==
    /\ mode = "run" /\ Top.m # Halt => Registered([sp |-> sp, locals |-> locals], Top)
    /\ mode = "unwind" /\ Top.pc = "try" => locals = LowOf(Top)
    /\ Unwinds => LowOf(Top) =< sp /\ (Method.sync => Top.pc \in Java \union {"native", "load"})

(* thread->sp may be old, but not older than the interpreter() that runs.  *)
ThreadSpInv ==
    /\ \A i \in 1 .. Len(frames) : frames[i].m = Halt => LowOf(frames[i]) =< threadSp
    /\ mode = "run" /\ Top.pc = "innative" => First(Top) =< threadSp

TypeOK ==
    /\ sp \in Int /\ locals \in Int /\ threadSp \in Int
    /\ exc \in {"none", "thrown", "ims"}
    /\ mode \in {"run", "unwind", "null", "fatal", "astray", "done"}
    /\ outer \in Seq([sp : Int, locals : Int])
    /\ linked \subseteq Methods /\ unpaired \subseteq Locks /\ holds \in [Locks -> Nat]

IInv ==
    /\ TypeOK /\ Stack(frames) /\ Saved(frames, outer)
    /\ RegistersInv /\ ThreadSpInv /\ Balanced
=============================================================================
