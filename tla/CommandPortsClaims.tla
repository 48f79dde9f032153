-------------------------- MODULE CommandPortsClaims --------------------------
(***************************************************************************)
(* What the documentation says of the ports, against what the receivers do. *)
(***************************************************************************)
EXTENDS CommandPorts

(* "Failed to bind UDP socket to port ...": end the other m2-Sim, or change *)
(* the port in the settings (New_README.md:239).  So a Save with a port    *)
(* nobody else has makes the command receiver listen on it (setPort).      *)
CommandPortHeals ==
  [][\A p \in Ports :
       Save(p) /\ Available([net EXCEPT !.sock["command"] = None], p) =>
         net'.sock["command"] = p]_vars
=============================================================================
