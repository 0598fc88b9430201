-------------------------- MODULE MCMRTKernelReruns --------------------------
(***************************************************************************)
(* MRTKernel over several runs of one simulation, restricted to behaviours *)
(* in which the requests of an instant come before its dispatch events, as *)
(* the priorities of the engine have it (arrivals 8, dispatches 18).       *)
(***************************************************************************)
EXTENDS MRTKernel

VARIABLE lastDispatch   (* when the latest dispatch event of the run was *)

allVars == <<vars, lastDispatch>>

IsRequest  == queue' # queue /\ run' = run
IsDispatch == queue' = queue /\ <<beginEvt, endEvt>>' # <<beginEvt, endEvt>>

Ordered ==
    /\ IsRequest => now' > lastDispatch
    /\ lastDispatch' = CASE run' # run -> -1
                         [] IsDispatch -> now'
                         [] OTHER      -> lastDispatch

OrderedSpec == Init /\ lastDispatch = -1 /\ [][Next /\ Ordered]_allVars
=============================================================================
