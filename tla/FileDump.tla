------------------------------- MODULE FileDump -------------------------------
(***************************************************************************)
(* The program with --files: main creates one FileConsumer for each source,*)
(* and the Demultiplexor gives each chunk to the one of its rate, whose    *)
(* encoder writes it to the file.  The chunks come from the Multiplexor,   *)
(* one whole stream after the other (Pipeline).  A write is done when the  *)
(* call returns: StreamAsyncWriter is not asynchronous.                    *)
(***************************************************************************)
EXTENDS Naturals, Sequences

CONSTANTS
    Rates,     \* of the sources, one for each
    None,      \* not a rate
    HeaderSize,\* what a header adds to bytesWritten
    MaxChunks  \* bound: chunks that are consumed

VARIABLES
    phase,     \* of main: "creating", "creatingConsumer", "running", "ended"
    format,    \* "PCM" or "FLAC"
    producers, \* main's vector of sources, by their rates
    consumers, \* of the Demultiplexor, by their rates
    current,   \* its currentConsumerPtr, None if null
    running,   \* consumers that run
    encoding,  \* consumers whose encoder runs: FileConsumer::start does not start it
    bytesWritten, \* of each consumer; a chunk counts one
    header,    \* size in the header of each rate's file, None without header
    file,      \* chunks in each rate's file
    consumed   \* history: data chunks of each rate that were consumed

consumerVars == <<consumers, current, running, encoding, bytesWritten>>
fileVars == <<header, file>>
vars == <<phase, format, producers, consumerVars, fileVars, consumed>>

Init ==
    /\ phase = "creating"
    /\ format \in {"PCM", "FLAC"}
    /\ producers = Rates
    /\ consumers = {} /\ current = None /\ running = {} /\ encoding = {}
    /\ bytesWritten = [r \in Rates |-> 0]
    /\ header = [r \in Rates |-> None]
    /\ file = [r \in Rates |-> <<>>]
    /\ consumed = [r \in Rates |-> <<>>]

\* main gives the sources to the Multiplexor.
MoveProducers ==
    /\ phase = "creating"
    /\ phase' = "creatingConsumer"
    /\ producers' = {}
    /\ UNCHANGED <<format, consumerVars, fileVars, consumed>>

\* writeHeader, at the beginning of the files of some rates.
WriteHeader(rates, sizes) ==
    IF format = "PCM"
      THEN /\ header' = [r \in Rates |-> IF r \in rates THEN sizes[r] ELSE header[r]]
           /\ bytesWritten' = [r \in Rates |-> IF r \in rates THEN bytesWritten[r] + HeaderSize
                                                              ELSE bytesWritten[r]]
      ELSE UNCHANGED <<header, bytesWritten>>

\* createFileConsumers: a file with its consumer for each source there is.
CreateFileConsumers ==
    /\ phase = "creatingConsumer"
    /\ phase' = "running"
    /\ consumers' = producers
    /\ WriteHeader(producers, [r \in Rates |-> 0])
    /\ running' = producers
    /\ UNCHANGED <<format, producers, current, encoding, file, consumed>>

\* The consumer that is kept, or else looked for: none if there is none of the rate.
Chosen(rate) == IF rate \in consumers THEN rate ELSE None

\* Demultiplexor::consumeChunk and FileConsumer::consumeChunk, of a data chunk: it is
\* consumed in any case, counted by its consumer, and written by an encoder that runs.
ConsumeChunk(rate) ==
    /\ phase = "running"
    /\ Len(consumed[rate]) < MaxChunks
    /\ LET chunk == Len(consumed[rate]) + 1 IN
         /\ consumed' = [consumed EXCEPT ![rate] = Append(@, chunk)]
         /\ file' = IF Chosen(rate) \in encoding
                      THEN [file EXCEPT ![rate] = Append(@, chunk)] ELSE file
    /\ current' = Chosen(rate)
    /\ bytesWritten' = IF Chosen(rate) = None THEN bytesWritten
                       ELSE [bytesWritten EXCEPT ![rate] = @ + 1]
    /\ UNCHANGED <<phase, format, producers, consumers, running, encoding, header>>

\* The end of a stream has no frames, but chooses the consumer.
ConsumeEnd(rate) ==
    /\ phase = "running"
    /\ current' = Chosen(rate)
    /\ UNCHANGED <<phase, format, producers, consumers, running, encoding, bytesWritten,
                   fileVars, consumed>>

\* Demultiplexor::stop.
Stop ==
    /\ phase = "running"
    /\ running' = {}
    /\ UNCHANGED <<phase, format, producers, consumers, current, encoding, bytesWritten,
                   fileVars, consumed>>

\* The consumers are destroyed: the headers get their sizes.
Destroy ==
    /\ phase = "running"
    /\ phase' = "ended"
    /\ WriteHeader(consumers, bytesWritten)
    /\ consumers' = {} /\ current' = None /\ running' = {}
    /\ UNCHANGED <<format, producers, encoding, file, consumed>>

Next ==
    \/ MoveProducers \/ CreateFileConsumers
    \/ \E rate \in Rates : ConsumeChunk(rate) \/ ConsumeEnd(rate)
    \/ Stop \/ Destroy

Spec == Init /\ [][Next]_vars

-----------------------------------------------------------------------------
(* Properties *)

\* "Dump PCM to files": what was consumed is in the file of its rate.
Dumped == \A rate \in Rates : file[rate] = consumed[rate]
=============================================================================
