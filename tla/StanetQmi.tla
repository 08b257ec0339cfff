------------------------------ MODULE StanetQmi ------------------------------
(***************************************************************************)
(* The daemon as it is shipped: stanet_qmi.c is the only caller of the     *)
(* API.  Its thread sleeps, opens one session, sleeps, writes a request to *)
(* the session that the callback has told it, sleeps and reads the answer. *)
(* The callback runs in the worker threads and shares session_id_tmp with  *)
(* that thread.                                                            *)
(***************************************************************************)
EXTENDS Stanet

CONSTANTS
  qmi,            (* the client thread of stanet_qmi.c                        *)
  QmiHost,        (* the server it talks to                                   *)
  QmiPort,
  HeaderLen,      (* length of http_header                                    *)
  ReadLen         (* bytes it asks for                                        *)

ASSUME QmiAssumption ==
  /\ qmi \in Clients
  /\ QmiHost \in Hosts \ ColonHosts /\ QmiPort \in Ports
  /\ HeaderLen \in Lens /\ ReadLen \in Lens

VARIABLES
  qpc,            (* the sleep the thread is in                               *)
  session_id_tmp, (* the session the last successful OPEN callback named      *)
  patient         (* whether a sleep(3) outlasts the start of a thread and    *)
                  (* the wakeup of a signalled one; it does not change        *)

qmiVars == <<vars, qpc, session_id_tmp, patient>>

QmiInit == Init /\ qpc = "sleep1" /\ session_id_tmp = -1 /\ patient \in BOOLEAN

(* The thread is in no call and its sleep is over.                          *)
Awake(l) ==
  /\ qpc = l
  /\ cpc[qmi] = "idle"
  /\ patient => \A s \in sessions : wpc[s] \notin {"start", "woken"}

QmiOpen ==
  /\ Awake("sleep1")
  /\ Open(qmi, QmiHost, QmiPort)
  /\ qpc' = "sleep2"
  /\ UNCHANGED <<session_id_tmp, patient>>

QmiWrite ==
  /\ Awake("sleep2")
  /\ session_id_tmp >= 0
  /\ Write(qmi, session_id_tmp, HeaderLen)
  /\ qpc' = "sleep3"
  /\ UNCHANGED <<session_id_tmp, patient>>

(* Without a session after its second sleep the thread ends.                *)
QmiGiveUp ==
  /\ Awake("sleep2")
  /\ session_id_tmp < 0
  /\ qpc' = "done"
  /\ UNCHANGED <<vars, session_id_tmp, patient>>

QmiRead ==
  /\ Awake("sleep3")
  /\ Read(qmi, session_id_tmp, ReadLen)
  /\ qpc' = "done"
  /\ UNCHANGED <<session_id_tmp, patient>>

(* qmi_session_callback remembers the session of an OPEN without an error;  *)
(* it is called with -1 by a failed OPEN whose error was not set.           *)
Remembered(args) ==
  IF args.msg_id = "OPEN" /\ args.err = "SUCCESS" THEN args.sid ELSE session_id_tmp

QmiCallback(s) ==
  /\ Callback(s)
  /\ session_id_tmp' = Remembered(CbArgs(s))
  /\ UNCHANGED <<qpc, patient>>

(* The steps of the daemon's threads that do not reach this module.         *)
Daemon(s) ==
  /\ Start(s) \/ Pop(s) \/ OpenStep(s) \/ TransferDone(s) \/ Reset(s)
  /\ UNCHANGED <<qpc, session_id_tmp, patient>>

QmiTransfer(s) == Transfer(s) /\ UNCHANGED <<qpc, session_id_tmp, patient>>
QmiCall        == (Mark(qmi) \/ Put(qmi)) /\ UNCHANGED <<qpc, session_id_tmp, patient>>

QmiThread == QmiOpen \/ QmiWrite \/ QmiGiveUp \/ QmiRead \/ QmiCall

QmiNext == \/ QmiThread
           \/ \E s \in Ids : QmiCallback(s) \/ Daemon(s) \/ QmiTransfer(s)

QmiSpec == QmiInit /\ [][QmiNext]_qmiVars

QmiFairSpec == /\ QmiSpec
               /\ WF_qmiVars(QmiThread)
               /\ \A s \in Ids : WF_qmiVars(QmiCallback(s) \/ Daemon(s))

-----------------------------------------------------------------------------
(* The session the thread remembers can be written and read, so that only   *)
(* its first call can be refused: no callback of the worker threads leaves  *)
(* it with a session that has been reset.                                   *)
RememberedIsConnected ==
  session_id_tmp >= 0 => Connected(session_id_tmp) /\ sockfd[session_id_tmp] # -1

(* With this one caller no second OPEN reaches a session, so no descriptor  *)
(* is ever overwritten: every open descriptor belongs to a session.         *)
NoDescriptorLost == \A fd \in fds : \E s \in Ids : sockfd[s] = fd

(* If the sleeps are long enough for the threads to get going, no wakeup    *)
(* of this caller is lost: each of its requests is taken by the worker.     *)
QmiRequestIsTaken ==
  \A s \in Ids :
    []<>(wpc[s] # "io") => (patient /\ msg_q[s] # << >> ~> (msg_q[s] = << >> \/ ~Alive))
=============================================================================
