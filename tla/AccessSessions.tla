---------------------------- MODULE AccessSessions ----------------------------
(***************************************************************************)
(* What `ocp-air tunnel' and `ocp-air console' do once JumpHost has found  *)
(* the management node: they run an ssh that forwards a local port, and    *)
(* the console a browser behind it, until one of them exits or the person  *)
(* stops the command (cli/commands/tunnel.py and console.py).              *)
(*                                                                         *)
(* The processes of JumpHost go on here: one that is "resolved" is the one *)
(* whose session this is.  Processes live on the person's machine, whose   *)
(* ports other programs use too.                                           *)
(*                                                                         *)
(* Simplifications: the look whether the port is free and the start of ssh *)
(* are one step, because ssh takes the port some time after both; so are   *)
(* sending a signal to a process and its end.  Finding a browser, its      *)
(* profile, the kubeconfig of the tunnel and ssh's own failures to start   *)
(* are left out.                                                           *)
(***************************************************************************)
EXTENDS JumpHost

CONSTANT Ports      \* local ports a person may choose

ASSUME PortsAssumption == Ports \subseteq Nat \ {0}

VARIABLES
  session,  \* place of each session, its command and its port
  ssh,      \* ssh processes
  browsers, \* the sessions whose browser is running
  taken     \* ports on which another program listens

sessionVars == <<session, ssh, browsers, taken>>
accessVars == <<vars, sessionVars>>

SessionPlaces ==
  {"none", "open", "await", "browse", "wait", "stopBrowser", "stopSsh", "over"}

Session ==
  [pc : SessionPlaces, cmd : {"none", "tunnel", "console"},
   port : Ports \cup {0}]

NoSession == [pc |-> "none", cmd |-> "none", port |-> 0]

(* The variables have their types, a session is that of a process that has *)
(* found the node, and a browser is that of a console which watches or     *)
(* stops it (run_tunnel, run_console).                                     *)
SessionTypeOK ==
  /\ session \in [Clients -> Session]
  /\ ssh \subseteq [owner : Clients, port : Ports, address : 1..MaxBoots,
                    up : BOOLEAN]
  /\ browsers \subseteq Clients
  /\ taken \subseteq Ports
  /\ \A c \in Clients :
       /\ session[c].pc # "none" => At(c, "resolved")
       /\ session[c].pc \notin {"none", "over"} => session[c].port # 0
       /\ c \in browsers => session[c].pc \in {"browse", "stopBrowser"}

AccessInit ==
  /\ Init
  /\ session = [c \in Clients |-> NoSession]
  /\ ssh = {}
  /\ browsers = {}
  /\ taken = {}
-----------------------------------------------------------------------------
In(c, p) == session[c].pc = p
Enter(c, p) ==
  session' = [session EXCEPT ![c] =
                IF p = "over" THEN [NoSession EXCEPT !.pc = p]
                              ELSE [@ EXCEPT !.pc = p]]
MachineKept == UNCHANGED <<ssh, browsers, taken>>

(* _port_open: somebody answers, this session's ssh or not.                *)
PortOpen(port) == port \in taken \/ \E s \in ssh : s.up /\ s.port = port

Own(c) == {s \in ssh : s.owner = c}
Running(c) == Own(c) # {}

(***************************************************************************)
(* run_tunnel and run_console.                                             *)
(***************************************************************************)
Begin(c) ==
  /\ At(c, "resolved") /\ In(c, "none")
  /\ \E cmd \in {"tunnel", "console"}, port \in Ports :
       session' = [session EXCEPT ![c] =
                     [pc |-> "open", cmd |-> cmd, port |-> port]]
  /\ MachineKept

(* _ensure_port_available and Popen.                                       *)
Open(c) ==
  /\ In(c, "open")
  /\ IF PortOpen(session[c].port)
       THEN Enter(c, "over") /\ UNCHANGED ssh
       ELSE /\ ssh' = ssh \cup
                 {[owner |-> c, port |-> session[c].port,
                   address |-> me[c].address, up |-> FALSE]}
            /\ Enter(c, IF session[c].cmd = "tunnel" THEN "wait" ELSE "await")
  /\ UNCHANGED <<browsers, taken>>

AfterAwaitUnstopped == "over"         \* mutated: ssh is not stopped
AfterAwait == "stopSsh"

(* The browser is started as soon as the port answers; or ssh has exited   *)
(* before, or does not get ready in time.                                  *)
AwaitOpen(c) ==
  /\ In(c, "await") /\ PortOpen(session[c].port)
  /\ browsers' = browsers \cup {c}
  /\ Enter(c, "browse")
  /\ UNCHANGED <<ssh, taken>>

AwaitFails(c) ==
  /\ In(c, "await") /\ ~PortOpen(session[c].port) /\ ~Running(c)
  /\ Enter(c, AfterAwait)
  /\ MachineKept

AwaitTimesOut(c) ==
  /\ In(c, "await") /\ ~PortOpen(session[c].port) /\ Running(c)
  /\ Enter(c, AfterAwait)
  /\ MachineKept

Supervise(c) ==
  /\ In(c, "browse") /\ (c \notin browsers \/ ~Running(c))
  /\ Enter(c, "stopBrowser")
  /\ MachineKept

Wait(c) ==
  /\ In(c, "wait") /\ ~Running(c)
  /\ Enter(c, "over")
  /\ MachineKept

StopBrowser(c) ==
  /\ In(c, "stopBrowser")
  /\ browsers' = browsers \ {c}
  /\ Enter(c, "stopSsh")
  /\ UNCHANGED <<ssh, taken>>

StopSsh(c) ==
  /\ In(c, "stopSsh")
  /\ ssh' = ssh \ Own(c)
  /\ Enter(c, "over")
  /\ UNCHANGED <<browsers, taken>>

InterruptSshOnly(c) ==                \* mutated: the browser is left
  /\ session[c].pc \in {"await", "browse", "wait"} /\ Enter(c, "stopSsh")
  /\ MachineKept

(* Ctrl-C.  ssh of a tunnel shares the terminal and gets it too.           *)
Interrupt(c) ==
  /\ \/ In(c, "open") /\ Enter(c, "over")
     \/ In(c, "await") /\ Enter(c, "stopSsh")
     \/ In(c, "browse") /\ Enter(c, "stopBrowser")
     \/ In(c, "wait") /\ Enter(c, "stopSsh")
  /\ MachineKept

(***************************************************************************)
(* A process that is killed, or interrupted again while it waits for the   *)
(* browser to end, leaves what it started.  From then on its ssh is        *)
(* another program: it holds its port or may take it.                      *)
(***************************************************************************)
Abandon(c) ==
  /\ session[c].pc \notin {"none", "over"}
  /\ taken' = taken \cup {s.port : s \in {s \in Own(c) : s.up}}
  /\ ssh' = ssh \ Own(c)
  /\ browsers' = browsers \ {c}
  /\ Enter(c, "over")

CloseBrowser(c) ==
  /\ c \in browsers
  /\ browsers' = browsers \ {c}
  /\ UNCHANGED <<session, ssh, taken>>
-----------------------------------------------------------------------------
(***************************************************************************)
(* ssh takes the port once it is connected and exits if it cannot          *)
(* (ExitOnForwardFailure) or if nobody answers any more, and a connection  *)
(* may be cut at any time.                                                 *)
(***************************************************************************)
Connect(s) ==
  /\ ~s.up /\ Answers(s.address)
  /\ ssh' = (ssh \ {s}) \cup
              (IF PortOpen(s.port) THEN {} ELSE {[s EXCEPT !.up = TRUE]})
  /\ UNCHANGED <<session, browsers, taken>>

Disconnect(s) ==
  /\ s.up \/ ~Answers(s.address)
  /\ ssh' = ssh \ {s}
  /\ UNCHANGED <<session, browsers, taken>>

Take(port) ==
  /\ ~PortOpen(port)
  /\ taken' = taken \cup {port}
  /\ UNCHANGED <<session, ssh, browsers>>

Release(port) ==
  /\ taken' = taken \ {port}
  /\ UNCHANGED <<session, ssh, browsers>>

SessionStep(c) ==
  \/ Begin(c) \/ Open(c) \/ AwaitOpen(c) \/ AwaitFails(c)
  \/ Supervise(c) \/ Wait(c)
  \/ StopBrowser(c) \/ StopSsh(c)

SessionNext ==
  \/ \E c \in Clients :
       \/ SessionStep(c) \/ AwaitTimesOut(c) \/ Interrupt(c)
       \/ Abandon(c) \/ CloseBrowser(c)
  \/ \E s \in ssh : Connect(s) \/ Disconnect(s)
  \/ \E port \in Ports : Take(port) \/ Release(port)

(* The next command is given when the session is over.                     *)
LaunchNext(c) ==
  /\ Launch(c) /\ (At(c, "resolved") => In(c, "over"))
  /\ session' = [session EXCEPT ![c] = NoSession]
  /\ MachineKept

JumpHostNext ==
  \/ \E c \in Clients : Step(c) \/ TeeFails(c) \/ TimeOut(c) \/ Kill(c)
  \/ Boot \/ ShutDown \/ InjectKey
  \/ \E s \in services : Forward(s) \/ List(s)

AccessNext ==
  \/ SessionNext /\ UNCHANGED vars
  \/ \E c \in Clients : LaunchNext(c)
  \/ JumpHostNext /\ UNCHANGED sessionVars

AccessSpec == AccessInit /\ [][AccessNext]_accessVars

(***************************************************************************)
(* Fairness of JumpHost; besides, the commands go on, and ssh connects or  *)
(* exits.  Nobody has to close a browser, to interrupt a command or to     *)
(* release a port, and that ssh misses its deadline is never relied on.    *)
(***************************************************************************)
NodeOnly(A) == A /\ UNCHANGED sessionVars
MachineOnly(A) == A /\ UNCHANGED vars

AccessFairness ==
  /\ \A c \in Clients :
       /\ WF_accessVars(NodeOnly(Step(c))) /\ WF_accessVars(LaunchNext(c))
       /\ WF_accessVars(NodeOnly(me[c].cmd = "deploy" /\ TimeOut(c)))
       /\ WF_accessVars(MachineOnly(SessionStep(c)))
  /\ WF_accessVars(NodeOnly(Boot)) /\ WF_accessVars(NodeOnly(InjectKey))
  /\ WF_accessVars(NodeOnly(\E s \in services : Forward(s)))
  /\ WF_accessVars(NodeOnly(\E s \in services : List(s)))
  /\ WF_accessVars(MachineOnly(\E s \in ssh : Connect(s)))
  /\ WF_accessVars(MachineOnly(
       \E s \in ssh : ~Answers(s.address) /\ Disconnect(s)))

AccessFairSpec == AccessSpec /\ AccessFairness
-----------------------------------------------------------------------------
(***************************************************************************)
(* A command that has ended has left neither ssh nor a browser running,    *)
(* whichever of its processes ended first and wherever it was interrupted  *)
(* (run_console: "own its SOCKS session until either process exits").      *)
(***************************************************************************)
NothingLeftRunning ==
  \A c \in Clients :
    session[c].pc \in {"none", "over"} => ~Running(c) /\ c \notin browsers

(* From some time on nobody stops a session and ssh connects in time.      *)
Patient ==
  <>[][\A c \in Clients :
         ~Interrupt(c) /\ ~Abandon(c) /\ ~AwaitTimesOut(c)]_accessVars

(***************************************************************************)
(* Sessions given again and again work in the end, after every shutdown    *)
(* of the simulation.  Access finds the address of the new boot by itself, *)
(* though Air goes on listing the old one for a while (docs/lifecycle.md:  *)
(* "They do not retain an endpoint from before the wake-up"), and a        *)
(* session on the old one ends and frees its port.  So does one whose      *)
(* browser was started because another program had taken the port and      *)
(* answered _port_open in the place of ssh.  Given that no other program   *)
(* stays on a port, one service and somebody who deploys.                  *)
(***************************************************************************)
AccessWorks ==
  /\ LeftAlone /\ Patient
  /\ <>[](taken = {})
  /\ [](Cardinality(services) <= 1)
  /\ \E c \in Clients : Commands[c] = {"deploy"}
  => \A c \in Clients : Commands[c] = {"access"} =>
       []<>(/\ session[c].pc \in {"browse", "wait"}
            /\ \E s \in Own(c) : s.up /\ Answers(s.address))
=============================================================================
