---------------------------- MODULE OpenAIRequest ---------------------------
(***************************************************************************)
(* One request to the OpenAI Responses API, as the bot sends it for a chat *)
(* turn (app/ai/client.py, OpenAIResponsesClient.create_response).  A call *)
(* posts at most twice; only a failure that cannot stand for a response    *)
(* the server has made, and charged, may be repeated.  What the server and *)
(* the network do is chosen freely.                                        *)
(***************************************************************************)
EXTENDS Naturals, Sequences, SequencesExt

CONSTANTS Calls,       \* the chat turns that come to call OpenAI
          Texts,       \* what a part of an answer may say
          Blank,       \* a text of spaces only
          NotText,     \* a part of another type than output_text or refusal
          MaxParts     \* bound: parts of the output of a response

ASSUME OpenAIAssumption == Blank \notin Texts /\ NotText \notin Texts /\ MaxParts \in Nat

VARIABLES call,        \* where each call stands
          processed    \* how many responses the server has made for it

requestVars == <<call, processed>>

\* An OpenAIClientError of whatever text, or an exception of another class.
Failures == {"api", "unexpected"}
CallOutcomes == {"answer", "incomplete", "blocked"} \cup Failures

CallState == [pc: {"new", "posting", "waiting", "ended"},
              attempt: 0..1,
              outcome: CallOutcomes \cup {"none"}]

RequestInit ==
  /\ call = [c \in Calls |-> [pc |-> "new", attempt |-> 0, outcome |-> "none"]]
  /\ processed = [c \in Calls |-> 0]

\* A body of a response: "other" if it is JSON but not an object.
Bodies == [json: {"invalid", "other", "object"},
           status: {"completed", "incomplete", "failed", "cancelled"},
           output_text: Texts \cup {Blank},
           output: SeqOf(Texts \cup {Blank, NotText}, MaxParts),
           flagged: BOOLEAN, usage: BOOLEAN]

\* _extract_output_text: the convenience field and the parts, each text once.
ExtractOutputText(body) ==
  FoldLeft(LAMBDA said, text : IF text = Blank \/ Contains(said, text) THEN said ELSE Append(said, text),
           <<>>, <<body.output_text>> \o SelectSeq(body.output, LAMBDA part : part # NotText))

\* What the client makes of a response with a status below 400.
Outcome(body) ==
  CASE body.json = "invalid" -> "api"
    [] body.json = "other" -> "unexpected"
    [] OTHER ->
         CASE body.status = "incomplete" -> "incomplete"
           [] body.status \in {"failed", "cancelled"} -> "api"
           [] OTHER ->
                CASE ExtractOutputText(body) = <<>> -> IF body.flagged THEN "blocked" ELSE "api"
                  [] ~body.usage -> "api"
                  [] OTHER -> "answer"

Ends(c, outcome) == call' = [call EXCEPT ![c] = [pc |-> "ended", attempt |-> 0, outcome |-> outcome]]

\* No key is configured, or the first request is sent.
CreateResponse(c) ==
  /\ call[c].pc = "new"
  /\ Ends(c, "api") \/ call' = [call EXCEPT ![c].pc = "posting"]
  /\ UNCHANGED processed

\* Sleep before the second attempt: half a second, or what Retry-After says.
Pause(c) == call' = [call EXCEPT ![c].pc = "waiting"]

\* No connection was made: the server has seen nothing.
ConnectFails(c) ==
  /\ call[c].pc = "posting"
  /\ IF call[c].attempt = 0 THEN Pause(c) ELSE Ends(c, "api")
  /\ UNCHANGED processed

\* Mutant of Breaks: a timeout is repeated like a failed connection.
BreaksAndRetries(c) ==
  /\ call[c].pc = "posting"
  /\ IF call[c].attempt = 0 THEN Pause(c) ELSE Ends(c, "api")
  /\ \E n \in {0, 1} : processed' = [processed EXCEPT ![c] = @ + n]

\* Any other timeout or transport error: the server may have done the work.
Breaks(c) ==
  /\ call[c].pc = "posting"
  /\ Ends(c, "api")
  /\ \E n \in {0, 1} : processed' = [processed EXCEPT ![c] = @ + n]

\* 429 is an explicit rejection.
TooManyRequests(c) ==
  /\ call[c].pc = "posting"
  /\ IF call[c].attempt = 0 THEN Pause(c) ELSE Ends(c, "api")
  /\ UNCHANGED processed

\* Another status of 400 or more; the server may have failed after the work.
ErrorStatus(c) ==
  /\ call[c].pc = "posting"
  /\ Ends(c, "api")
  /\ \E n \in {0, 1} : processed' = [processed EXCEPT ![c] = @ + n]

Responds(c) ==
  /\ call[c].pc = "posting"
  /\ \E outcome \in {Outcome(body) : body \in Bodies} : Ends(c, outcome)
  /\ processed' = [processed EXCEPT ![c] = @ + 1]

Retry(c) ==
  /\ call[c].pc = "waiting"
  /\ call' = [call EXCEPT ![c].pc = "posting", ![c].attempt = @ + 1]
  /\ UNCHANGED processed

RequestStep(c) ==
  \/ CreateResponse(c) \/ ConnectFails(c) \/ Breaks(c) \/ TooManyRequests(c)
  \/ ErrorStatus(c) \/ Responds(c) \/ Retry(c)

-----------------------------------------------------------------------------

(***************************************************************************)
(* client.py:137 and 154: whatever the network does, the retry never makes *)
(* OpenAI produce, and charge for, two responses to one chat turn.         *)
(***************************************************************************)
ProcessedOnce == \A c \in Calls : processed[c] <= 1
=============================================================================
