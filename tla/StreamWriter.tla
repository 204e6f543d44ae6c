----------------------------- MODULE StreamWriter -----------------------------
(***************************************************************************)
(* The stream writers of a broker connection.  Each has a publication of   *)
(* the client, and each publication a request that the MQTT library keeps  *)
(* a pointer to from a write until its answer, however late.  Routing      *)
(* Service creates and deletes writers, and writes batches of samples, all *)
(* on the thread of one session: the module adds to Publication what       *)
(* surrounds the writes of one writer.                                     *)
(*                                                                         *)
(* A constructor may fail at each of its steps; what it has built by then  *)
(* is released by the code of the matching destructor.                     *)
(***************************************************************************)
EXTENDS Publication, Sequences, SequencesExt

CONSTANTS
  Writers,       (* stream writers that may be created                     *)
  Observed,      (* the one whose publication is modelled in full          *)
  MaxBatch       (* bounds the model: samples of one call                  *)

ASSUME ObservedAssumption == Observed \in Writers /\ MaxBatch \in Nat \ {0}

VARIABLES
  connection,    (* "none", "alive", "gone"                                *)
  writers,       (* the list of the connection                             *)
  publications,  (* the list of the client                                 *)
  publication,   (* of each writer: "none", "alive", "freed"               *)
  request,       (* of each publication: "none", "made", "freed"           *)
  batch,         (* samples of the call under way                          *)
  written_messages,
  first,         (* the message of its first sample                        *)
  ended,         (* history: [first, last, count] of the call before       *)
  undefined      (* what the program did that has no defined outcome       *)

lifecycle == <<connection, writers, publications, publication, request>>
call == <<batch, written_messages, first, ended>>
allVars == <<vars, lifecycle, call, undefined>>

Free == "freed"
Live(w) == publication[w] = "alive"
Runs == undefined = "nothing"
Between == pc = "idle" /\ batch = 0

StreamInit ==
  /\ Init
  /\ connection = "none"
  /\ writers = <<>> /\ publications = <<>>
  /\ publication = [w \in Writers |-> "none"]
  /\ request = [w \in Writers |-> "none"]
  /\ batch = 0 /\ written_messages = 0 /\ first = 1
  /\ ended = [first |-> 1, last |-> 0, count |-> 0]
  /\ undefined = "nothing"

-----------------------------------------------------------------------------
(* BrokerConnection_new.  The destructor finalizes the lists of readers    *)
(* and writers, which a failure before their initialization leaves as the  *)
(* heap had them.  A client that cannot be initialized is finalized first, *)
(* and a connection that cannot connect is deleted like any other.         *)
BeforeLists == {"config", "discovery", "client"}

BrokerConnection_new(fails) ==
  /\ Runs /\ connection = "none"
  /\ connection' = IF fails = "nothing" THEN "alive" ELSE "gone"
  /\ \/ UNCHANGED undefined
     \/ fails \in BeforeLists /\ undefined' = "lists of a partial connection"
  /\ UNCHANGED <<vars, writers, publications, publication, request, call>>

(* Client_finalize unpublishes what is left and destroys the MQTT client,  *)
(* which answers nothing any more.  Routing Service has deleted the        *)
(* writers before.                                                         *)
Finalized(w) == IF Contains(publications, w) THEN Free ELSE publication[w]

BrokerConnection_delete ==
  /\ Runs /\ connection = "alive"
  /\ writers = <<>> /\ Between /\ callback = NoCallback
  /\ connection' = "gone"
  /\ publication' = [w \in Writers |-> Finalized(w)]
  /\ publications' = <<>>
  /\ UNCHANGED <<vars, writers, request, call, undefined>>

-----------------------------------------------------------------------------
(* Client_publish: the publication, its place in the list of the client,   *)
(* its request; what was done is undone when a later step fails.  If there *)
(* is no publication, deleting its request reads through a null pointer.   *)
Added(w) == Append(publications, w)
Undone(w) == publications

Requested(fails) == IF fails = "writer list" THEN Free ELSE "none"

create_stream_writer(w, fails) ==
  /\ Runs /\ connection = "alive" /\ Between
  /\ publication[w] = "none"
  /\ CASE fails = "nothing" ->
            /\ publication' = [publication EXCEPT ![w] = "alive"]
            /\ request' = [request EXCEPT ![w] = "made"]
            /\ publications' = Added(w)
            /\ writers' = Append(writers, w)
            /\ UNCHANGED undefined
       [] fails = "publication" ->
            /\ undefined' = "request of no publication"
            /\ UNCHANGED <<writers, publications, publication, request>>
       [] fails \in {"stream", "config"} ->
            UNCHANGED <<writers, publications, publication, request, undefined>>
       [] fails \in {"client list", "request", "writer list"} ->
            /\ publication' = [publication EXCEPT ![w] = Free]
            /\ request' = [request EXCEPT ![w] = Requested(fails)]
            /\ publications' = Undone(w)
            /\ UNCHANGED <<writers, undefined>>
  /\ UNCHANGED <<vars, connection, call>>

(* delete_stream_writer, with Client_unpublish: neither asks whether the   *)
(* library has messages of this publication left to answer.                *)
Unpublished(w) == RemoveFirst(publications, w)

delete_stream_writer(w) ==
  /\ Runs /\ connection = "alive" /\ Between
  /\ Contains(writers, w)
  /\ writers' = RemoveFirst(writers, w)
  /\ publications' = Unpublished(w)
  /\ publication' = [publication EXCEPT ![w] = Free]
  /\ request' = [request EXCEPT ![w] = Free]
  /\ UNCHANGED <<vars, connection, call, undefined>>

-----------------------------------------------------------------------------
(* MessageWriter_write: samples one after the other, to the first failure. *)

BeginCall(n) ==
  /\ Runs /\ Live(Observed) /\ Between
  /\ message < MaxWrites
  /\ batch' = n
  /\ written_messages' = 0
  /\ first' = message + 1
  /\ UNCHANGED <<vars, lifecycle, ended, undefined>>

EndCall(last, count) ==
  /\ ended' = [first |-> first, last |-> last, count |-> count]
  /\ batch' = 0 /\ written_messages' = 0
  /\ UNCHANGED first

(* A sample without topic, valid QoS or payload is not written at all.     *)
RejectSample ==
  /\ Runs
  /\ pc = "idle" /\ batch > 0
  /\ EndCall(message, written_messages)
  /\ UNCHANGED <<vars, lifecycle, undefined>>

WriteSample ==
  /\ Runs
  /\ batch > 0
  /\ \/ \E qos \in 0..2 : BeginWrite(qos)
     \/ CountPending \/ Send \/ CountSent
  /\ UNCHANGED <<lifecycle, call, undefined>>

(* What the publication returned decides whether the call goes on. *)
GoesOnAlways == TRUE
GoesOn == returned'[message] = "OK"

SampleDone ==
  /\ Runs
  /\ Awake \/ GiveUp \/ Refused
  /\ LET count == written_messages + IF returned'[message] = "OK" THEN 1 ELSE 0 IN
     IF GoesOn /\ written_messages + 1 < batch /\ message < MaxWrites
     THEN /\ written_messages' = count
          /\ UNCHANGED <<batch, first, ended>>
     ELSE EndCall(message, count)
  /\ UNCHANGED <<lifecycle, undefined>>

-----------------------------------------------------------------------------
(* The library has the request of each message that it has not answered.   *)
Answers == Callback /\ UNCHANGED <<lifecycle, call, undefined>>

AnswerInTime == Runs /\ Live(Observed) /\ Answers

AnswerTooLate ==
  /\ Runs /\ connection = "alive" /\ publication[Observed] = Free
  /\ inflight # {} \/ callback # NoCallback
  /\ undefined' = "answer to a deleted publication"
  /\ UNCHANGED <<vars, lifecycle, call>>

StreamNext ==
  \/ \E fails \in {"nothing", "connect"} \cup BeforeLists : BrokerConnection_new(fails)
  \/ BrokerConnection_delete
  \/ \E w \in Writers :
       \/ \E fails \in {"nothing", "stream", "config", "publication", "client list",
                        "request", "writer list"} : create_stream_writer(w, fails)
       \/ delete_stream_writer(w)
  \/ \E n \in 1 .. MaxBatch : BeginCall(n)
  \/ RejectSample \/ WriteSample \/ SampleDone
  \/ AnswerInTime \/ AnswerTooLate

StreamSpec == StreamInit /\ [][StreamNext]_allVars

-----------------------------------------------------------------------------
(* The count that a call returns is that of its first samples, and these   *)
(* and no others of the call were published - as long as no write timed    *)
(* out: then a sample that is not counted may be published after all.      *)
CountIsPublished ==
  Patient => \A m \in ended.first .. ended.last :
    m \in published <=> m < ended.first + ended.count

(* The library finds no deleted publication - as long as no write timed    *)
(* out: only then does a writer leave a message behind that is answered    *)
(* after its deletion.                                                     *)
AnswersFindTheirPublication ==
  undefined = "answer to a deleted publication" => ~Patient

(* The client has the publications of the writers, in their order, and     *)
(* none that is freed, whatever constructor failed.                        *)
FreedIsForgotten ==
  /\ publications = writers
  /\ \A w \in ToSet(publications) : publication[w] = "alive" /\ request[w] = "made"
===============================================================================
