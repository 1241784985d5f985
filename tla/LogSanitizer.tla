---------------------------- MODULE LogSanitizer ----------------------------
(***************************************************************************)
(* collector.py, sanitize: what of one raw record may enter the outbox.    *)
(* A record is abstracted to the classes of its fields; "words" is any     *)
(* text that was not foreseen, private or not.  An event is the set of its *)
(* <<field, value>> pairs; no event is the empty set.                      *)
(***************************************************************************)
EXTENDS Integers, Sequences, SequencesExt

VARIABLES record, event
vars == <<record, event>>

\* Rows of the two tables, first match first: a phrase stands for those around it
\* that give the same event.
Phrases ==
  [rf_coturn |-> << <<"allocation timeout", "allocation_closed", "timeout">>,
                    <<"allocation created", "allocation_opened", "normal">>,
                    <<"closed (2nd stage)", "allocation_closed", "normal">>,
                    <<"438: stale nonce", "authentication_challenge", "stale_nonce">>,
                    <<"tls/tcp socket error", "transport_error", "socket_error">> >>,
   livekit |-> << <<"starting rtc session", "rtc_opened", "normal">>,
                  <<"participant closing", "rtc_closed", "normal">>,
                  <<"dtls timeout", "rtc_error", "dtls_timeout">> >>]

RouteEnums ==
  [stage |-> {"ENTRY", "ICE"}, outcome |-> {"STARTED", "FAILURE"},
   connection_role |-> {"PUBLISHER", "NONE"}, transport_class |-> {"DIRECT", "TURN_TLS"},
   regional_endpoint_matched |-> {"true", "null"}]

Connection ==
  {"connection_opened", "connection_closed", "heartbeat_termination", "connection_error"}
Channels == {"yjs", "game", "external-activity"}
CloseClasses == {"heartbeat", "normal", "transport"}
SnapshotOutcomes == {"retry", "document_invalid", "unsaved"}

Else(values) == values \cup {"words", "absent"}

\* nginx writes the times of several attempts with a comma after each.
Bodies(source) ==
  CASE source \in {"rf_nginx", "ax41_nginx"} ->
         [request_id: Else({"hex32"}), status: {99, 101, 399, 400, 600},
          time: {"number", "number,", "-", "negative", "words"}]
    [] source \in {"rf_coturn", "livekit"} ->
         {{p[1], q[1]} : p, q \in Range(Phrases[source])} \cup {{}}
    [] source = "api_route" ->
         {[RouteEnums EXCEPT !.stage = s, !.outcome = o, !.connection_role = c,
                             !.transport_class = t, !.regional_endpoint_matched = e] @@ [attempt_id |-> a] :
            s \in Else({"ICE"}), o \in Else({"FAILURE"}), c \in Else({"NONE"}),
            t \in Else({"TURN_TLS"}), e \in Else({"null"}), a \in Else({"uuid"})}
    [] OTHER ->
         [event: Else(Connection \cup {"snapshot_outcome", "input_failure", "snapshot_failure"}),
          channel: Else(Channels), close_class: Else(CloseClasses),
          age: {"number", "absent", "words"}, outcome: Else(SnapshotOutcomes)]

----------------------------------------------------------------------------
(* One event, or none *)

Nginx(b) ==
  IF b.request_id # "hex32" \/ b.status \notin 100..599 \/ b.time \in {"negative", "words"} THEN {}
  ELSE {<<"event", "signaling_request">>, <<"request_id", b.request_id>>,
        <<"outcome", IF b.status < 400 THEN "success" ELSE "failure">>}
       \cup {<<"time", t>> : t \in {b.time} \ {"-", "number,"}}

\* Mutant: the last phrase of the table counts.
LastPhrase(phrases, message) == SelectLastInSeq(phrases, LAMBDA p : p[1] \in message)

\* The first phrase of the table that is in the message; 0 for none.
FirstPhrase(phrases, message) == SelectInSeq(phrases, LAMBDA p : p[1] \in message)

Message(phrases, b) ==
  LET n == FirstPhrase(phrases, b)
  IN IF n = 0 THEN {} ELSE {<<"event", phrases[n][2]>>, <<"reason", phrases[n][3]>>}

Route(b) ==
  IF (\E key \in DOMAIN RouteEnums : b[key] \notin RouteEnums[key]) \/ b.attempt_id # "uuid" THEN {}
  ELSE {<<"event", "regional_route">>} \cup {<<key, b[key]>> : key \in DOMAIN b}

Closing(b) ==
  IF b.close_class \notin CloseClasses \/ b.age = "words" THEN {}
  ELSE {<<"close_class", b.close_class>>} \cup {<<"age", a>> : a \in {b.age} \ {"absent"}}

Collaboration(b) ==
  CASE b.event \in Connection /\ b.channel \in Channels ->
         IF b.event # "connection_closed" THEN {<<"event", b.event>>, <<"channel", b.channel>>}
         ELSE IF Closing(b) = {} THEN {}
         ELSE {<<"event", b.event>>, <<"channel", b.channel>>} \cup Closing(b)
    [] b.event = "snapshot_outcome" /\ b.outcome \in SnapshotOutcomes ->
         {<<"event", b.event>>, <<"outcome", b.outcome>>}
    [] b.event \in {"input_failure", "snapshot_failure"} -> {<<"event", b.event>>}
    [] OTHER -> {}

Sanitized(r) ==
  IF ~r.fits \/ ~r.stamped THEN {}
  ELSE CASE r.source \in {"rf_nginx", "ax41_nginx"} -> Nginx(r.body)
         [] r.source \in {"rf_coturn", "livekit"} -> Message(Phrases[r.source], r.body)
         [] r.source = "api_route" -> Route(r.body)
         [] OTHER -> Collaboration(r.body)

Init ==
  /\ \E source \in {"rf_nginx", "ax41_nginx", "rf_coturn", "livekit", "api_route", "collaboration"} :
       \E body \in Bodies(source), fits, stamped \in BOOLEAN :
         record = [source |-> source, body |-> body, fits |-> fits, stamped |-> stamped]
  /\ event = {}

Next == event = {} /\ event' = Sanitized(record) /\ UNCHANGED record
Spec == Init /\ [][Next]_vars

----------------------------------------------------------------------------
(* Properties *)

\* Nothing unforeseen gets out: an event holds no text of its record that is not
\* one of the enumerated values, a single number or an opaque identifier.
OnlyForeseenText == \A f \in event : f[2] \notin {"words", "absent", "number,", "negative"}

\* A message may hold several phrases: an allocation that ended by its timeout is
\* not reported as closed normally.
TimeoutIsNotNormal ==
  record.source = "rf_coturn" /\ "allocation timeout" \in record.body
    => <<"reason", "normal">> \notin event
=============================================================================
