------------------------------- MODULE MCSession -------------------------------
(***************************************************************************)
(* Plans for model checking: bundles t2 and t3, the second one with a traffic *)
(* cycle as Bundle::Traffic, and the monitors under the baseline t1.          *)
(***************************************************************************)
EXTENDS Session

CONSTANTS t2, t3

Order ==
  <<BundleStep(t2, Nil, 2), BundleStep(Baseline, Nil, 0), BundleStep(t3, 5, 1)>>

\* reset-rules and run-all
HostPlan == <<ResetStep>> \o RunAll(Order, 1, 5)
\* a manual rule, `run` of a single case, `provision` with a cycle of its own,
\* reset-rules and another `run`
AndroidPlan ==
  <<ManualStep(t2)>> \o RunOne(BundleStep(t3, 5, 1), 5)
    \o ProvisionCommand(t2, 9) \o <<ResetStep>> \o RunOne(BundleStep(t2, Nil, 1), 5)
ProvisionPlan == ProvisionCommand(t2, 9)

=============================================================================
