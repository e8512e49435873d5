----------------------------- MODULE MCGpuQueue -----------------------------
(* One caller of GpuQueue, to show one short behaviour; what holds of the  *)
(* component is checked in MCProfileLimits.                                *)
EXTENDS GpuQueue
=============================================================================
