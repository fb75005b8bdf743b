------------------------------- MODULE MCCaseRun -------------------------------
(***************************************************************************)
(* Cases of catalog.rs, as far as the runner decides by them, and the         *)
(* sequences of them that the runs execute.                                  *)
(***************************************************************************)
EXTENDS CaseRun

Silent(o, p, h, v, l) ==
  [origin |-> o, port |-> p, hit |-> h, enforce |-> v, listen |-> l,
   kind |-> "none", eport |-> NoPort]

Detected(o, p, h, v, l, k, ep) ==
  [origin |-> o, port |-> p, hit |-> h, enforce |-> v, listen |-> l,
   kind |-> k, eport |-> ep]

MatchProtoAny == Silent("peer", 7300, 7300, "blocked", FALSE)
DetectBelowThreshold == Silent("peer", NoPort, 9201, "blocked", FALSE)
AppPolicyAllow == Silent("target", 6101, 6101, "allowed", TRUE)
AppPolicyDeny ==
  Detected("target", 6101, 6101, "blocked", TRUE, "PolicyDeny", NoPort)
DetectPortscanTcp ==
  Detected("peer", NoPort, 9001, "blocked", FALSE, "PortScan", NoPort)

\* match-proto-any-tcp and -udp share source and port.
SamePortScript == <<MatchProtoAny, MatchProtoAny, DetectPortscanTcp>>
\* `run app-policy-deny` repeated, then app-policy-allow of the same flow: the second
\* denial must not be credited with the first one's event, nor the last case be
\* blamed for either.
AppScript == <<AppPolicyDeny, AppPolicyDeny, AppPolicyAllow>>
ThresholdScript == <<DetectBelowThreshold>>

=============================================================================
