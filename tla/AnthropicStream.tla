-------------------------- MODULE AnthropicStream --------------------------
(***************************************************************************)
(* AnthropicProvider.ChatStream (src/providers/anthropic.go): the request  *)
(* is built from the conversation, and the events of the answer are put    *)
(* together while the text in them is passed on.  Chat is the same without *)
(* the passing on.                                                         *)
(*                                                                         *)
(* The vendor's SDK is external: NewStreaming sends the request; Next      *)
(* yields events until the body ends, well (even before the answer is      *)
(* complete) or not; Accumulate adds an event to the message.  Pieces of   *)
(* text are numbered; 0 is the empty one.  A block of text starts empty,   *)
(* as the service sends it: Accumulate would keep a text that came with    *)
(* the start of a block, and ChatStream pass on none of it.                *)
(***************************************************************************)
EXTENDS Naturals, SequencesExt

CONSTANTS
    MaxMessages,    \* bound: messages in a request
    MaxEvents       \* bound: events in an answer

ASSUME StreamBounds == MaxMessages \in Nat /\ MaxEvents \in Nat

VARIABLES
    chatting,   \* where ChatStream is: "idle", "stream"; "ok", "error": what it returned
    params,     \* the MessageNewParams that were sent: numbers of the messages
    message,    \* accumulated: blocks of text or tool use, and the stop reason
    events,     \* events so far
    chunks,     \* what onChunk was called with
    answer      \* the ChatResponse

streamVars == <<chatting, params, message, events, chunks, answer>>

Roles == {"system", "user", "assistant", "tool"}
NoText == 0
Done == MaxEvents + 1   \* the chunk without text that says so

StreamInit ==
    /\ chatting = "idle"
    /\ params = [system |-> <<>>, messages |-> <<>>]
    /\ message = [blocks |-> <<>>, stop |-> ""]
    /\ events = 0
    /\ chunks = <<>>
    /\ answer = [content |-> <<>>, toolCalls |-> <<>>, finish |-> ""]

-----------------------------------------------------------------------------
(* buildMessageParams: the system messages are joined and go ahead, the    *)
(* others follow in order; a role it does not know ends the call, that of  *)
(* a tool's result among them.  The tool calls of a message are dropped.   *)
OfRole(roles, rs) == SelectSeq([i \in DOMAIN roles |-> i], LAMBDA i : roles[i] \in rs)
Built(roles) == [system |-> OfRole(roles, {"system"}),
                 messages |-> OfRole(roles, {"user", "assistant"})]

ChatStream(roles) ==
    /\ chatting = "idle"
    /\ IF Range(roles) \subseteq {"system", "user", "assistant"}
       THEN params' = Built(roles) /\ chatting' = "stream"
       ELSE chatting' = "error" /\ UNCHANGED params
    /\ UNCHANGED <<message, events, chunks, answer>>

(* stream.Next, and Accumulate.                                            *)
Event(blocks, stop) ==
    /\ chatting = "stream"
    /\ events < MaxEvents
    /\ events' = events + 1
    /\ message' = [blocks |-> blocks, stop |-> stop]
    /\ UNCHANGED <<chatting, params, answer>>

BlockStarts(type) ==
    /\ message.stop = ""
    /\ Event(Append(message.blocks, [type |-> type, data |-> <<>>]), "")
    /\ UNCHANGED chunks

(* A delta goes to the last block; text that is not empty is passed on.    *)
Forwarded(type, piece) == IF type = "text" /\ piece # NoText THEN <<piece>> ELSE <<>>

Delta(piece) ==
    LET blocks == message.blocks IN
    /\ message.stop = "" /\ blocks # <<>>
    /\ LET last == Last(blocks) IN
       /\ Event(ReplaceAt(blocks, Len(blocks),
                  [last EXCEPT !.data = IF piece = NoText THEN @ ELSE Append(@, piece)]), "")
       /\ chunks' = chunks \o Forwarded(last.type, piece)

Stops ==        \* message_delta
    /\ message.stop = ""
    /\ Event(message.blocks, "end")
    /\ UNCHANGED chunks

(* messageToChatResponse.                                                  *)
Blocks(type) == SelectSeq(message.blocks, LAMBDA b : b.type = type)

LastText == IF Blocks("text") = <<>> THEN <<>>      \* variant for ChunksAreTheAnswer
            ELSE Last(Blocks("text")).data

(* The text of the first n blocks.                                         *)
TextParts[n \in 0..Len(message.blocks)] ==
    IF n = 0 THEN <<>>
    ELSE TextParts[n - 1] \o
         IF message.blocks[n].type = "text" THEN message.blocks[n].data ELSE <<>>
Text == TextParts[Len(message.blocks)]

StreamEnds ==
    /\ chatting = "stream"
    /\ chunks' = Append(chunks, Done)
    /\ answer' = [content |-> Text, toolCalls |-> Blocks("tool_use"), finish |-> message.stop]
    /\ chatting' = "ok"
    /\ UNCHANGED <<params, message, events>>

StreamFails ==      \* Accumulate, or stream.Err
    /\ chatting = "stream"
    /\ chatting' = "error"
    /\ UNCHANGED <<params, message, events, chunks, answer>>

StreamStep ==
    \/ \E n \in 1..MaxMessages : \E roles \in [1..n -> Roles] : ChatStream(roles)
    \/ \E type \in {"text", "tool_use"} : BlockStarts(type)
    \/ \E piece \in {NoText, events + 1} : Delta(piece)
    \/ Stops \/ StreamEnds \/ StreamFails

-----------------------------------------------------------------------------
(* Whoever only listens to the chunks and whoever only reads the answer    *)
(* get the same text, whatever is between its parts; the listener is told  *)
(* that it is over once, at its end, and only if there is an answer.       *)
ChunksAreTheAnswer ==
    IF chatting = "ok" THEN chunks = Append(answer.content, Done)
    ELSE Done \notin Range(chunks)
=============================================================================
