------------------------------ MODULE Stream --------------------------------
(***************************************************************************)
(* A streaming call, from the directory server's Watch to the client that  *)
(* asked for it: the watcher, the relay that turns its events into         *)
(* messages (rpc/dirserver), serveStream that writes them to the           *)
(* connection, decodeStream that reads them, and the goroutine of          *)
(* dir/remote's Watch that hands them to the user, who may close done.     *)
(*                                                                         *)
(* Channels have no buffer, so a message changes hands in one step of both *)
(* goroutines.  Events are the numbers 1, 2, 3, ...                        *)
(***************************************************************************)
EXTENDS Sequences, Integers

CONSTANTS
    Wire,            \* how many messages the connection holds
    StreamSettings   \* how many events there are (events) and what may happen (ops)

VARIABLES
    streamSetting,   \* one of StreamSettings; it never changes
    watcher,         \* [next, open]: the event the watcher is to send, and whether it goes on
    relay,           \* [pc, has]: "range", "out" or "closed", and the event it holds
    server,          \* [pc, has, nobody]: serveStream; nobody once it knows that done was closed
    serverDone,      \* the server's done channel is closed
    wire,            \* messages on the connection
    conn,            \* the connection: "open", "ended" by the server, "broken", or "closed" by the client
    decoder,         \* [pc, has]: decodeStream
    receiver,        \* [pc, has]: the goroutine of Watch
    done,            \* the client's done channel is closed
    received         \* the events the user was given

streamVars == <<watcher, relay, server, serverDone, wire, conn, decoder, receiver, done, received>>

error == 0     \* an event that carries an error

StreamInit ==
    /\ streamSetting \in StreamSettings
    /\ watcher = [next |-> 1, open |-> TRUE]
    /\ relay = [pc |-> "range", has |-> error]
    /\ server = [pc |-> "select", has |-> error, nobody |-> FALSE]
    /\ serverDone = FALSE
    /\ wire = << >>
    /\ conn = "open"
    /\ decoder = [pc |-> "read", has |-> error]
    /\ receiver = [pc |-> "select", has |-> error]
    /\ done = FALSE
    /\ received = << >>

-----------------------------------------------------------------------------
(* The server. *)

\* The watcher sends its next event, or sees done closed and closes its channel; it
\* also does so when it fails.
WatcherSends ==
    /\ watcher.open
    /\ watcher.next <= streamSetting.events
    /\ relay.pc = "range"
    /\ watcher' = [watcher EXCEPT !.next = @ + 1]
    /\ relay' = [pc |-> "out", has |-> watcher.next]
    /\ UNCHANGED <<server, serverDone, wire, conn, decoder, receiver, done, received>>
WatcherStops ==
    /\ watcher.open
    /\ serverDone \/ "stop" \in streamSetting.ops
    /\ watcher' = [watcher EXCEPT !.open = FALSE]
    /\ UNCHANGED <<relay, server, serverDone, wire, conn, decoder, receiver, done, received>>

\* Watch of rpc/dirserver: it hands on every event and closes its channel when the
\* watcher has closed its own.
RelayEnds ==
    /\ relay.pc = "range"
    /\ ~watcher.open
    /\ relay' = [relay EXCEPT !.pc = "closed"]
    /\ UNCHANGED <<watcher, server, serverDone, wire, conn, decoder, receiver, done, received>>

\* serveStream takes a message, which it drops if there is nobody to deliver it to;
\* it returns when there are no more.
ServerReceives ==
    /\ server.pc = "select"
    /\ \/ /\ relay.pc = "out"
          /\ relay' = [relay EXCEPT !.pc = "range"]
          /\ server' = [server EXCEPT !.pc = IF server.nobody THEN "select" ELSE "write", !.has = relay.has]
          /\ UNCHANGED conn
       \/ /\ relay.pc = "closed"
          /\ server' = [server EXCEPT !.pc = "returned"]
          /\ conn' = IF conn = "open" THEN "ended" ELSE conn
          /\ UNCHANGED relay
    /\ UNCHANGED <<watcher, serverDone, wire, decoder, receiver, done, received>>

ServerSeesDone ==
    /\ server.pc = "select"
    /\ serverDone /\ ~server.nobody
    /\ server' = [server EXCEPT !.nobody = TRUE]
    /\ UNCHANGED <<watcher, relay, serverDone, wire, conn, decoder, receiver, done, received>>

\* A write waits while the connection is full; on a connection that is gone it
\* fails, and serveStream returns.
ServerWrites ==
    /\ server.pc = "write"
    /\ IF conn = "open"
       THEN Len(wire) < Wire /\ wire' = Append(wire, server.has) /\ server' = [server EXCEPT !.pc = "select"]
       ELSE server' = [server EXCEPT !.pc = "returned"] /\ UNCHANGED wire
    /\ UNCHANGED <<watcher, relay, serverDone, conn, decoder, receiver, done, received>>

\* The goroutine that waits for the end of the connection closes done.
ServerNotified ==
    /\ conn \in {"broken", "closed"}
    /\ ~serverDone
    /\ serverDone' = TRUE
    /\ UNCHANGED <<watcher, relay, server, wire, conn, decoder, receiver, done, received>>

Break ==
    /\ "break" \in streamSetting.ops
    /\ conn = "open"
    /\ conn' = "broken"
    /\ UNCHANGED <<watcher, relay, server, serverDone, wire, decoder, receiver, done, received>>

-----------------------------------------------------------------------------
(* The client. *)

\* readFull, in decodeStream: a message; the end of the stream, which is an error; a
\* broken connection, which is not; or done, which is.
DecoderReads ==
    /\ decoder.pc = "read"
    /\ \/ /\ wire # << >>
          /\ decoder' = [pc |-> "send", has |-> Head(wire)]
          /\ wire' = Tail(wire)
       \/ /\ wire = << >> /\ conn = "ended"
          /\ decoder' = [pc |-> "error", has |-> error]
          /\ UNCHANGED wire
       \/ /\ wire = << >> /\ conn = "broken"
          /\ decoder' = [decoder EXCEPT !.pc = "return"]
          /\ UNCHANGED wire
       \/ /\ done
          /\ decoder' = [pc |-> "error", has |-> error]
          /\ UNCHANGED wire
    /\ UNCHANGED <<watcher, relay, server, serverDone, conn, receiver, done, received>>

\* Send gives up when done is closed; Error does not.
DecoderGivesUp ==
    /\ decoder.pc = "send"
    /\ done
    /\ decoder' = [decoder EXCEPT !.pc = "read"]
    /\ UNCHANGED <<watcher, relay, server, serverDone, wire, conn, receiver, done, received>>

DecoderSends ==
    /\ decoder.pc \in {"send", "error"}
    /\ receiver.pc = "select"
    /\ decoder' = [decoder EXCEPT !.pc = IF decoder.pc = "send" THEN "read" ELSE "return"]
    /\ receiver' = [pc |-> "give", has |-> decoder.has]
    /\ UNCHANGED <<watcher, relay, server, serverDone, wire, conn, done, received>>

\* Mutant of DecoderReturns: the body is left open.
DecoderReturnsOpen ==
    /\ decoder.pc = "return"
    /\ decoder' = [decoder EXCEPT !.pc = "closed"]
    /\ UNCHANGED <<watcher, relay, server, serverDone, wire, conn, receiver, done, received>>

\* When decodeStream returns it closes the body, and with it the connection, and the stream.
DecoderReturns ==
    /\ decoder.pc = "return"
    /\ decoder' = [decoder EXCEPT !.pc = "closed"]
    /\ conn' = "closed"
    /\ UNCHANGED <<watcher, relay, server, serverDone, wire, receiver, done, received>>

\* The goroutine of Watch hands an event to the user; it ends, and closes the channel
\* of events, when the stream is closed or done is.
ReceiverGives ==
    /\ receiver.pc = "give"
    /\ received' = Append(received, receiver.has)
    /\ receiver' = [receiver EXCEPT !.pc = "select"]
    /\ UNCHANGED <<watcher, relay, server, serverDone, wire, conn, decoder, done>>
ReceiverEnds ==
    /\ receiver.pc # "closed"
    /\ done \/ (receiver.pc = "select" /\ decoder.pc = "closed")
    /\ receiver' = [receiver EXCEPT !.pc = "closed"]
    /\ UNCHANGED <<watcher, relay, server, serverDone, wire, conn, decoder, done, received>>

CloseDone ==
    /\ "done" \in streamSetting.ops
    /\ ~done
    /\ done' = TRUE
    /\ UNCHANGED <<watcher, relay, server, serverDone, wire, conn, decoder, receiver, received>>

-----------------------------------------------------------------------------

Flow ==
    \/ WatcherSends \/ (WatcherStops /\ serverDone) \/ RelayEnds \/ ServerReceives \/ ServerSeesDone \/ ServerWrites
    \/ ServerNotified \/ DecoderReads \/ DecoderGivesUp \/ DecoderSends \/ DecoderReturns \/ ReceiverGives \/ ReceiverEnds

StreamNext ==
    /\ Flow \/ WatcherStops \/ Break \/ CloseDone
    /\ UNCHANGED streamSetting

-----------------------------------------------------------------------------

\* The user is given the events in the order the watcher sent them, each once and,
\* until done is closed, none left out, with an error only as the last; every event
\* sent is with the user or with one of the goroutines on the way, until the
\* connection or done is closed.
EventsInOrder ==
    /\ \A i, j \in DOMAIN received : (i < j => received[i] # error /\ received[j] \notin 1 .. received[i])
    /\ ~done => \A i \in DOMAIN received : received[i] \in {i, error}
    /\ (conn = "open" /\ ~done) =>
        Len(received) + (IF receiver.pc = "give" THEN 1 ELSE 0) + (IF decoder.pc = "send" THEN 1 ELSE 0) + Len(wire)
            + (IF server.pc = "write" THEN 1 ELSE 0) + (IF relay.pc = "out" THEN 1 ELSE 0) = watcher.next - 1

\* Whoever ends a stream, the user's channel is closed in the end.  decodeStream
\* returns too, except that once done is closed it may wait for ever to report an
\* error to a receiver that has gone (remote.go, Error), contrary to its comment; the
\* stream then stays open on the server until the connection breaks.  When
\* decodeStream has returned or the connection is broken the watcher stops, and so
\* does the relay unless a write failed (serveStream then takes no more messages).
StreamEnded ==
    /\ done \/ conn # "open" => receiver.pc = "closed" /\ decoder.pc \in {"closed", "error"}
    /\ decoder.pc = "error" => done
    /\ decoder.pc = "closed" \/ conn = "broken" => ~watcher.open
    /\ decoder.pc = "closed" => relay.pc = "closed" \/ server.pc = "returned"
=============================================================================
