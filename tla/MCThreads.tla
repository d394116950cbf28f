----------------------------- MODULE MCThreads -----------------------------
(* Three threads, none with id 0, on a native and a WOW64 machine. *)
EXTENDS Threads

MCThreadList == <<1, 3, 4>>
MCMachines == { [actual |-> "AMD64", effective |-> "AMD64"],
                [actual |-> "AMD64", effective |-> "I386"],
                [actual |-> "I386", effective |-> "I386"] }
MCBuilds == {"none", "loaded", "newer"}
MCFields == {"ntdll!_TEB", "ntdll!_TEB32"} \X {"ThreadLocalStoragePointer"}
MCOffsetIn ==
  [b \in MCBuilds |-> [f \in MCFields |->
     IF b = "none" THEN Unknown
     ELSE (IF f[1] = "ntdll!_TEB" THEN 88 ELSE 44) + (IF b = "newer" THEN 8 ELSE 0)]]
MCInfoIn == [b \in MCBuilds |-> [f \in MCFields |-> NoInfo]]
=============================================================================
