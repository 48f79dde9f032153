----------------------------- MODULE CommandPorts -----------------------------
(***************************************************************************)
(* The three command receivers of the Observer (VisionReceiver, Control-   *)
(* BlueReceiver, ControlYellowReceiver): the life of their sockets over    *)
(* starts, Saves of the settings and other programs on the same ports.     *)
(*                                                                         *)
(* A port is a number from 1 to 65535, bound exclusively, as on Unix.  The *)
(* settings user interface only lets the command port be changed           *)
(* (docs/architecture.md 5.3); a Save calls the setters of all three.      *)
(* What a datagram commands is the matter of RobotCommands; the replies of *)
(* the team receivers are left out.                                        *)
(*                                                                         *)
(* The operators marked "mutant" are plausible mistakes, each next to the  *)
(* definition it would replace; no action uses them.                       *)
(***************************************************************************)
EXTENDS Integers

CONSTANTS
  Ports,
  None

ASSUME PortsAssumption == None \notin Ports

Teams     == {"blue", "yellow"}
Receivers == Teams \cup {"command"}

VARIABLES
  running,
  setting,     \* the ports in the settings and their file
  net,         \* [sock, current, links]: of each receiver, the port it is bound to,
               \* currentPort, and the connections of readyRead to receive
  foreign      \* the ports other programs hold

vars == <<running, setting, net, foreign>>

-----------------------------------------------------------------------------
Closed == [sock    |-> [r \in Receivers |-> None],
           current |-> [r \in Receivers |-> None],
           links   |-> [r \in Receivers |-> 0]]

Available(n, p) == p \notin foreign /\ \A r \in Receivers : n.sock[r] # p

(* Only the blue receiver connects without Qt::UniqueConnection.           *)
Linked(n, r) == IF r = "blue" THEN n.links[r] + 1 ELSE 1

TakesOverFirst(n, r, p) ==                     \* mutant: currentPort is set before the bind
  IF Available(n, p)
    THEN [sock    |-> [n.sock EXCEPT ![r] = p],
          current |-> [n.current EXCEPT ![r] = p],
          links   |-> [n.links EXCEPT ![r] = Linked(n, r)]]
    ELSE [n EXCEPT !.current[r] = p]

(* A socket that is still bound cannot be bound anew.                      *)
StartListening(n, r, p) ==
  IF n.sock[r] = None /\ Available(n, p)
    THEN [sock    |-> [n.sock EXCEPT ![r] = p],
          current |-> [n.current EXCEPT ![r] = p],
          links   |-> [n.links EXCEPT ![r] = Linked(n, r)]]
    ELSE n

StaysOpen(n, r)     == n                       \* mutant: setPort does not stop first
StopListening(n, r) == [n EXCEPT !.sock[r] = None]

AlwaysRestarts(n, r, p) == StartListening(StopListening(n, r), r, p)   \* mutant: no early return
SetPort(n, r, p) ==
  IF p = n.current[r] THEN n ELSE StartListening(StopListening(n, r), r, p)

-----------------------------------------------------------------------------
Init ==
  /\ running = FALSE
  /\ setting \in [Receivers -> Ports]
  /\ net = Closed
  /\ foreign \in SUBSET Ports

Start ==
  /\ ~running
  /\ running' = TRUE
  /\ net' = StartListening(
              StartListening(
                StartListening(Closed, "command", setting["command"]),
                "blue", setting["blue"]),
              "yellow", setting["yellow"])
  /\ UNCHANGED <<setting, foreign>>

(* The window is closed or the program dies.                               *)
Quit ==
  /\ running
  /\ running' = FALSE
  /\ net' = Closed
  /\ UNCHANGED <<setting, foreign>>

(* The file is edited by hand; a running program does not notice.          *)
EditConfig ==
  /\ ~running
  /\ setting' \in [Receivers -> Ports]
  /\ UNCHANGED <<running, net, foreign>>

(* The Save button, with command port p in its field.                      *)
Save(p) ==
  /\ running
  /\ setting' = [setting EXCEPT !["command"] = p]
  /\ net' = SetPort(
              SetPort(
                SetPort(net, "command", p),
                "blue", setting["blue"]),
              "yellow", setting["yellow"])
  /\ UNCHANGED <<running, foreign>>

(* Other programs, a second m2-Sim among them, come and go.                *)
Others ==
  /\ \E p \in Ports :
       \/ Available(net, p) /\ foreign' = foreign \cup {p}
       \/ foreign' = foreign \ {p}
  /\ UNCHANGED <<running, setting, net>>

Next ==
  \/ Start
  \/ Quit
  \/ EditConfig
  \/ \E p \in Ports : Save(p)
  \/ Others

Spec == Init /\ [][Next]_vars

-----------------------------------------------------------------------------
PortOf == [Receivers -> Ports \cup {None}]

TypeOK ==
  /\ running \in BOOLEAN
  /\ setting \in [Receivers -> Ports]
  /\ net \in [sock : PortOf, current : PortOf, links : [Receivers -> 0 .. 1]]
  /\ foreign \in SUBSET Ports

(* A receiver that is bound is bound to the port the settings show, and no *)
(* two of them to the same: whatever binds failed before, nobody can send  *)
(* commands to a port the user has moved away from.  Its readyRead is      *)
(* connected to receive once, also by the receiver that connects without   *)
(* Qt::UniqueConnection.                                                   *)
ListensOnSetting ==
  \A r \in Receivers :
    net.sock[r] # None =>
      /\ net.sock[r] = setting[r]
      /\ net.current[r] = setting[r]
      /\ net.sock[r] \notin foreign
      /\ \A q \in Receivers : net.sock[q] = net.sock[r] => q = r
      /\ net.links[r] = 1

(* Setting.qml and setPort: after a Save a team receiver listens unless    *)
(* somebody else has its port; one that could not bind at the start, also  *)
(* because the command receiver had its port, is bound by a later Save.    *)
TeamPortsHeal ==
  [][\A p \in Ports, t \in Teams :
       Save(p) => net'.sock[t] # None \/ ~Available(net', setting[t])]_vars
=============================================================================
