---------------------------- MODULE SerialService ----------------------------
(***************************************************************************)
(* A SerialService and its SerialPorts (commoncpp/serial.cpp), the select  *)
(* build: nothing defines USE_POLL for these classes.  One application     *)
(* thread creates and deletes ports, sets their timers and what they       *)
(* detect, and deletes the service; the service thread drains the update   *)
(* pipe, passes over its ports under the mutex and sleeps in select().     *)
(* That select() watches the ports' devices and never the pipe.  Devices   *)
(* and the clock are the environment; the kernel's pipe keeps order.       *)
(***************************************************************************)
EXTENDS Integers, Sequences, SequencesExt

CONSTANTS
  Ports,
  Flags,      \* what the application sets: detect_pending "inp", _output "out"
  MaxPipe,    \* bound: unread flags at which the application stops acting
  Deletes     \* whether the application deletes the service at some point

NoPort == "none"

Assumptions ==
  /\ NoPort \notin Ports
  /\ Flags \subseteq {"inp", "out"} /\ MaxPipe \in Nat /\ Deletes \in BOOLEAN

Idle == [inp |-> {}, out |-> {}, err |-> {}, timed |-> {}]

VARIABLES
  ports,     \* the list from first to last
  count,     \* as kept, outside the mutex by attach()
  active,    \* TimerPort::active of each port
  due,       \* the ports whose time has come
  detect,    \* detect_pending, detect_output, detect_disconnect: sets of ports
  data, exc, \* devices with input waiting, with an exceptional condition
  pipe,      \* flags written to iosync[1] and not read: 0 ends the thread
  svc,       \* the service thread
  cursor,    \* the port its pass is at
  found,     \* what select() returned
  watch,     \* what the pass has collected for the next select()
  app,       \* the application thread, with the port it works on
  hushed     \* ports attached to an emptied service that ran: no update()

vars == <<ports, count, active, due, detect, data, exc, pipe, svc, cursor,
          found, watch, app, hushed>>
timers == <<active, due>>
service == <<svc, cursor, found, watch>>

Init ==
  /\ ports = <<>> /\ count = 0
  /\ active = {} /\ due = {}
  /\ detect = [inp |-> Ports, out |-> {}, err |-> Ports]
  /\ data = {} /\ exc = {} /\ pipe = <<>>
  /\ svc = "none" /\ cursor = NoPort /\ found = Idle /\ watch = Idle
  /\ app = [at |-> "idle", port |-> NoPort] /\ hushed = {}

Attached == ToSet(ports)
InPass == svc \in {"pass", "expire"}
Free(at) == app.at = at /\ Len(pipe) < MaxPipe
Ready == Free("idle") /\ svc # "exited"
Go(at, p) == app' = [at |-> at, port |-> p]
Update(flag) == pipe' = Append(pipe, flag)

(* SerialPort's constructor and the locked part of attach().               *)
Attach(p) ==
  /\ Ready /\ p \notin Attached /\ ~InPass
  /\ ports' = Append(ports, p)
  /\ Go(IF ports = <<>> THEN "start" ELSE "tell", p)
  /\ UNCHANGED <<count, timers, detect, data, exc, pipe, service, hushed>>

(* attach() after leaveMutex(): the first port starts the thread, if it    *)
(* does not run, and every other port is told to it.                       *)
AttachStart ==
  /\ app.at = "start" /\ Go("idle", NoPort)
  /\ count' = count + 1
  /\ IF svc = "none"
       THEN svc' = "drain" /\ UNCHANGED hushed
       ELSE hushed' = hushed \cup {app.port} /\ UNCHANGED svc
  /\ UNCHANGED <<ports, timers, detect, data, exc, pipe, cursor, found, watch>>

AttachTell ==
  /\ app.at = "tell" /\ Go("idle", NoPort)
  /\ Update(255) /\ count' = count + 1
  /\ UNCHANGED <<ports, timers, detect, data, exc, service, hushed>>

(* A plausible bug: detach() without the mutex.                            *)
MayDetachAnytime == TRUE

MayDetach == ~InPass

(* SerialPort's destructor: detach(), then endSerial() closes the device.  *)
(* What a deleted port had set is as its next constructor sets it.         *)
Detach(p) ==
  /\ Ready /\ MayDetach
  /\ \E i \in DOMAIN ports : ports[i] = p /\ ports' = RemoveAt(ports, i)
  /\ count' = count - 1 /\ Go("untell", p)
  /\ active' = active \ {p} /\ due' = due \ {p}
  /\ detect' = [inp |-> detect.inp \cup {p}, out |-> detect.out \ {p},
                err |-> detect.err \cup {p}]
  /\ hushed' = hushed \ {p}
  /\ UNCHANGED <<data, exc, pipe, service>>

(* The device is closed: what it had to say is gone.                       *)
DetachTell ==
  /\ app.at = "untell" /\ Go("idle", NoPort) /\ Update(255)
  /\ data' = data \ {app.port} /\ exc' = exc \ {app.port}
  /\ UNCHANGED <<ports, count, timers, detect, service, hushed>>

(* SerialPort::setTimer and incTimer, without the mutex: setTimer(0) ends  *)
(* the timer, and both tell the service afterwards.                        *)
SetTimer(p, on) ==
  /\ Ready /\ p \in Attached
  /\ active' = IF on THEN active \cup {p} ELSE active \ {p}
  /\ due' = due \ {p} /\ Go("set", p)
  /\ UNCHANGED <<ports, count, detect, data, exc, pipe, service, hushed>>

(* setDetectPending and setDetectOutput, when they change anything.        *)
SetDetect(p, f) ==
  /\ Ready /\ p \in Attached /\ Go("set", p)
  /\ detect' = [detect EXCEPT ![f] = IF p \in @ THEN @ \ {p} ELSE @ \cup {p}]
  /\ UNCHANGED <<ports, count, timers, data, exc, pipe, service, hushed>>

(* A plausible bug: a setter that tells nobody.                            *)
SetSilently ==
  /\ app.at = "set" /\ Go("idle", NoPort)
  /\ UNCHANGED <<ports, count, timers, detect, data, exc, pipe, service, hushed>>

SetTell ==
  /\ app.at = "set" /\ Go("idle", NoPort) /\ Update(255)
  /\ UNCHANGED <<ports, count, timers, detect, data, exc, service, hushed>>

(* ~SerialService: update(0), then terminate() joins the thread and the    *)
(* remaining ports are deleted.                                            *)
Delete ==
  /\ Deletes /\ Ready /\ Update(0) /\ Go("join", NoPort)
  /\ UNCHANGED <<ports, count, timers, detect, data, exc, service, hushed>>

Joined ==
  /\ app.at = "join" /\ svc \in {"none", "exited"} /\ Go("gone", NoPort)
  /\ ports' = <<>> /\ count' = count - Len(ports)
  /\ active' = {} /\ due' = {} /\ data' = {} /\ exc' = {} /\ hushed' = {}
  /\ UNCHANGED <<detect, pipe, service>>
-----------------------------------------------------------------------------
(* run(): read the pipe until it is empty or says to exit.                 *)
Drain ==
  /\ svc = "drain" /\ pipe # <<>> /\ pipe' = Tail(pipe)
  /\ svc' = IF Head(pipe) = 0 THEN "exited" ELSE "drain"
  /\ UNCHANGED <<ports, count, timers, detect, data, exc, cursor, found, watch,
                 app, hushed>>

(* enterMutex() and onEvent(), at the first port.                          *)
Begin ==
  /\ svc = "drain" /\ pipe = <<>> /\ svc' = "pass"
  /\ cursor' = IF ports = <<>> THEN NoPort ELSE Head(ports)
  /\ UNCHANGED <<ports, count, timers, detect, data, exc, pipe, found, watch, app,
                 hushed>>

Following(p) ==
  LET i == CHOOSE n \in 1..Len(ports) : ports[n] = p
  IN IF i = Len(ports) THEN NoPort ELSE ports[i + 1]

(* disconnect(), pending() and output() of the port, as select() found,    *)
(* and its timer: a due one is ended and expired() is called.              *)
Serve ==
  /\ svc = "pass" /\ cursor # NoPort
  /\ detect' = [detect EXCEPT !.err = IF cursor \in found.err THEN @ \ {cursor} ELSE @]
  /\ data' = IF cursor \in found.inp THEN data \ {cursor} ELSE data
  /\ found' = [f \in DOMAIN found |-> found[f] \ {cursor}]
  /\ watch' = [watch EXCEPT !.timed =
                 IF cursor \in active \ due THEN @ \cup {cursor} ELSE @]
  /\ IF cursor \in active \cap due
       THEN svc' = "expire" /\ UNCHANGED cursor
       ELSE cursor' = Following(cursor) /\ UNCHANGED svc
  /\ UNCHANGED <<ports, count, timers, exc, pipe, app, hushed>>

(* endTimer() and expired(), which may set the timer again; then the timer *)
(* is looked at once more.                                                 *)
Expire ==
  /\ svc = "expire" /\ svc' = "pass" /\ due' = due \ {cursor}
  /\ \/ active' = active \ {cursor} /\ UNCHANGED pipe
     \/ /\ active' = active \cup {cursor} /\ Len(pipe) < MaxPipe /\ Update(255)
  /\ UNCHANGED <<ports, count, detect, data, exc, cursor, found, watch, app, hushed>>

(* Collect what to wait for, leaveMutex() and enter select().              *)
Select ==
  /\ svc = "pass" /\ cursor = NoPort /\ svc' = "select"
  /\ watch' = [inp |-> detect.inp \cap Attached, out |-> detect.out \cap Attached,
               err |-> detect.err \cap Attached, timed |-> watch.timed]
  /\ hushed' = {} /\ found' = Idle
  /\ UNCHANGED <<ports, count, timers, detect, data, exc, pipe, cursor, app>>

(* select() returns for a device, or at the time of the earliest timer,    *)
(* which may have been changed since: at any moment, then.  A serial       *)
(* device can always be written.                                           *)
Seen == [inp |-> watch.inp \cap data, out |-> watch.out,
         err |-> watch.err \cap exc, timed |-> {}]

SelectReturns ==
  /\ svc = "select" /\ svc' = "drain" /\ found' = Seen /\ watch' = Idle
  /\ Seen # Idle \/ watch.timed # {}
  /\ UNCHANGED <<ports, count, timers, detect, data, exc, pipe, cursor, app, hushed>>
-----------------------------------------------------------------------------
(* The environment: input, trouble, and the time of a timer.               *)
Arrive(p) ==
  /\ p \in Attached \ (data \cup exc)
  /\ \/ data' = data \cup {p} /\ UNCHANGED exc
     \/ exc' = exc \cup {p} /\ UNCHANGED data
  /\ UNCHANGED <<ports, count, timers, detect, pipe, service, app, hushed>>

Elapse(p) ==
  /\ p \in active \ due /\ due' = due \cup {p}
  /\ UNCHANGED <<ports, count, active, detect, data, exc, pipe, service, app, hushed>>

Service == Drain \/ Begin \/ Serve \/ Expire \/ Select \/ SelectReturns
Tell == AttachStart \/ AttachTell \/ DetachTell \/ SetTell \/ Joined

Next ==
  \/ \E p \in Ports : Attach(p) \/ Detach(p) \/ Arrive(p) \/ Elapse(p)
  \/ \E p \in Ports : \/ \E on \in BOOLEAN : SetTimer(p, on)
                      \/ \E f \in Flags : SetDetect(p, f)
  \/ Tell \/ Delete \/ Service

(* Every thread goes on while it can, and time passes.                     *)
Spec == Init /\ [][Next]_vars /\ WF_vars(Tell) /\ WF_vars(Service)
             /\ \A p \in Ports : WF_vars(Elapse(p))
-----------------------------------------------------------------------------
TypeOK ==
  /\ IsInjective(ports) /\ Attached \subseteq Ports
  /\ active \subseteq Attached /\ due \subseteq active
  /\ Len(pipe) <= MaxPipe + 1
  /\ svc \in {"none", "drain", "pass", "expire", "select", "exited"}

(* The service calls no port that its destructor has detached: the mutex   *)
(* holds detach() off during a pass.                                       *)
PassSafe == InPass /\ cursor # NoPort => cursor \in Attached

(* When the service sleeps and has been told of everything, it waits for   *)
(* what each port wants, its timer included.  The one exception is a port  *)
(* attached to an emptied service, which attach() only start()s again.     *)
WatchesAll ==
  svc = "select" /\ pipe = <<>> /\ app.at = "idle" =>
    /\ \A f \in {"inp", "out", "err"} :
         (detect[f] \cap Attached) \ hushed \subseteq watch[f]
    /\ active \ hushed \subseteq watch.timed

(* What update() says, the service hears.  It does not: select() does not  *)
(* watch the pipe.                                                         *)
UpdatesHeard == (pipe # <<>> /\ svc = "select") ~> (svc # "select")
=============================================================================
