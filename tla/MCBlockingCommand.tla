-------------------------- MODULE MCBlockingCommand -------------------------
(* BlockingCommand on small instances for TLC. *)
EXTENDS BlockingCommand

(* Two nodes of a port each, one with no host name, and two IPv6 hosts     *)
(* that begin with a colon and with a number.                              *)
Addresses == [host : {<<"h1">>, <<>>, <<":", ":", "1">>, <<"1", ":", "2">>}, port : {<<"7001">>}]
               \cup {[host |-> <<"h2">>, port |-> <<"2">>]}

(* Errors of nodes, and errors a script can write.                         *)
ErrorTexts ==
  {<<"ERR">>, <<"ERR", " ", "CLUSTERDOWN">>, <<"CLUSTERDOWN", " ", "x">>,
   <<"ASK">>, <<"MOVED", " ", "x">>, <<"ASK", " ", "x", " ", "7001">>,
   <<"MOVED", " ", "1", " ", "h1", ":", "99999999999">>,
   <<"ASKED", " ", "1", " ", "h1", ":", " ", "2">>, <<"MOVED", ":", "2", " ">>}
=============================================================================
