------------------------------- MODULE MCConfig -------------------------------
(***************************************************************************)
(* Every option set in at most one or two places at a time; a file with a key   *)
(* given twice and one that only an unread line would match.                    *)
(***************************************************************************)
EXTENDS Config

Only(k, v) == [Empty EXCEPT ![k] = v]

MCShells == {Empty, Only("mode", "android"), Only("target_ip", "10.9.0.1"), Only("veth_prefix", Bad)}

MCFlagSets ==
  {Empty, Only("mode", "host"), Only("target_ip", "10.8.0.1"), Only("veth_prefix", 16),
   [Empty EXCEPT !["vsoc_cert"] = "c", !["vsoc_key"] = "k"]}

MCFiles ==
  {<<Line("mode", "android"), Line("mode", "host"), Line("target_ip", Bad)>>,
   <<Line("veth-prefix", "16"), Line("vsoc_cert", "d"), Line("vsoc_url", "u")>>}

=============================================================================
