-------------------------- MODULE MCAdapterLifecycle --------------------------
(* Two adapters, so that the MPInitialize of one meets the MPHalt of the     *)
(* other at the control device.                                              *)
EXTENDS AdapterLifecycle, TLC

CONSTANTS a1, a2

MCAdapters == {a1, a2}
==============================================================================
