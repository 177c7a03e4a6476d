------------------------------- MODULE MCScan -------------------------------
(* A small instance of Scan for TLC: a charger under both services, one of *)
(* old firmware, one with an answer that cannot be decoded, a printer.     *)
EXTENDS Scan

Service(host, type, charger, txt) ==
  [host |-> host, type |-> type, charger |-> charger, txt |-> txt]

Network ==
  {Service("a", "pblr", TRUE, TRUE), Service("a", "http", TRUE, TRUE),
   Service("b", "http", TRUE, TRUE), Service("b", "http", TRUE, FALSE),
   Service("p", "http", FALSE, TRUE), Service("p", "pblr", FALSE, TRUE)}
=============================================================================
