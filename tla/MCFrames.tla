------------------------------ MODULE MCFrames ------------------------------
(* A thread with a synchronized main method, an instance method with        *)
(* arguments and a result, a synchronized one, a static native and a        *)
(* synchronized native.                                                     *)
EXTENDS Frames

Kind(sync, native, static, args, ret, ml, ms, lock) ==
    [sync |-> sync, native |-> native, static |-> static, args |-> args,
     ret |-> ret, maxLocals |-> ml, maxStack |-> ms, lock |-> lock]
MCMethods == {"main", "get", "sync", "snative", "native", "clinit", "halt_method"}
MCNested  == {"clinit"}
MCInfo ==
    [m \in MCMethods |->
      CASE m = "main"    -> Kind(TRUE,  FALSE, TRUE,  0, 0, 1, 2, "class")
        [] m = "get"     -> Kind(FALSE, FALSE, FALSE, 1, 2, 2, 2, "none")
        [] m = "sync"    -> Kind(TRUE,  FALSE, FALSE, 1, 1, 1, 1, "object")
        [] m = "snative" -> Kind(TRUE,  TRUE,  FALSE, 1, 0, 0, 0, "object")
        [] m = "native"  -> Kind(FALSE, TRUE,  TRUE,  1, 1, 0, 0, "none")
        [] m = "clinit"  -> Kind(TRUE,  FALSE, TRUE,  0, 0, 0, 1, "class")
        [] m = "halt_method" -> Kind(FALSE, FALSE, TRUE, 0, 0, 0, 0, "none")]
=============================================================================
