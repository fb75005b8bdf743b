------------------------------ MODULE MCMonitor ------------------------------
(***************************************************************************)
(* Neighbours in the order of monitor_cases(), and the two traffic cases.     *)
(***************************************************************************)
EXTENDS Monitor

MCScripts ==
  {<<"icmp-timestamp", "conn-total">>, <<"conn-total", "conn-perip">>,
   <<"conn-perip", "arp-spoof">>, <<"traffic-global", "traffic-per-app">>}

=============================================================================
