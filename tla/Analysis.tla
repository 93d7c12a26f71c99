------------------------------- MODULE Analysis -------------------------------
(***************************************************************************)
(* The packet analysis by protocol: four parts that share nothing and do    *)
(* not call one another.  Each step is a step of one of them.               *)
(***************************************************************************)
EXTENDS IpReass, PortPolicy, Checksum, HttpUpload

analysisVars == <<reassVars, policyVars, sumVars, httpVars>>

AnalysisInit == ReassInit /\ PolicyInit /\ SumInit /\ HttpInit

Reassembles == ReassNext /\ UNCHANGED <<policyVars, sumVars, httpVars>>
LooksForPorts == PolicyNext /\ UNCHANGED <<reassVars, sumVars, httpVars>>
AddsUp == SumNext /\ UNCHANGED <<reassVars, policyVars, httpVars>>
ParsesUploads == HttpNext /\ UNCHANGED <<reassVars, policyVars, sumVars>>

AnalysisNext == Reassembles \/ LooksForPorts \/ AddsUp \/ ParsesUploads

AnalysisSpec == AnalysisInit /\ [][AnalysisNext]_analysisVars

\* Each variable has its type.
AnalysisTypeOK == ReassTypeOK /\ PolicyTypeOK /\ SumTypeOK /\ HttpTypeOK
==============================================================================
