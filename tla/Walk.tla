-------------------------------- MODULE Walk --------------------------------
(***************************************************************************)
(* The body walkers (walk.rs, openai_chat.rs, openai_responses.rs): which  *)
(* leaves of a request are masked and as what surface, which subtrees are  *)
(* only scanned for registered secrets, which are passed through; and how  *)
(* each part of a whole reply is restored.                                 *)
(*                                                                         *)
(* A leaf is named by the keys on its path.  Roles and the kinds of        *)
(* blocks and items stand in the path as keys of their own, "extra" for a  *)
(* flatten sink, "data64" for base64 data and data: URLs.                  *)
(***************************************************************************)
EXTENDS Unmask, FiniteSets

CONSTANTS
    Paths,      \* wire -> the paths of its leaves
    Replies,    \* texts the model may write into a part of its reply
    Known,      \* what the engine knows of the handles
    MaxLeaves   \* bound: leaves of a body

Wire == {"anthropic", "chat", "responses"}

(***************************************************************************)
(* The fields of a typed body that the walks name, any keys below those    *)
(* they go down into, and every field of a message block of messages.      *)
(* What else a part of a content of the OpenAI wires has in the library's  *)
(* types (detail, annotations, a part of an unknown kind) is not a path    *)
(* here: the walks neither mask nor scan it.                               *)
(***************************************************************************)
Roles == {"user", "assistant", "system", "developer", "tool", "function"}
Ids == {"id", "name", "call_id", "tool_use_id", "tool_call_id"}
AnthropicShape(p) ==
    \/ p[1] \in {"output_config", "extra", "metadata", "context_management", "model"}
    \/ p[1] = "system" /\ (Len(p) > 1 => p[2] = "extra")
    \/ p[1] = "tools" /\ Len(p) > 1
       /\ p[2] \in {"description", "input_schema", "extra", "cache_control", "name", "type"}
    \/ /\ p[1] = "messages" /\ Len(p) > 3 /\ p[2] \in {"user", "assistant"}
       /\ p[3] \in {"text", "tool_use", "tool_result", "image", "document", "compaction",
                    "thinking", "other", "extra"}
ChatShape(p) ==
    \/ p[1] \in {"tools", "response_format", "tool_choice", "guided_regex", "guided_grammar",
                 "guided_choice", "extra", "user", "model"}
    \/ /\ p[1] = "messages" /\ Len(p) > 2 /\ p[2] \in Roles
       /\ \/ p[3] = "extra"
          \/ p[3] \in {"content", "name"} /\ Len(p) = 3
          \/ p[3] = "image_url" /\ Len(p) > 3 /\ p[4] \in {"url", "data64", "extra"}
          \/ p[3] = "tool_call_id" /\ Len(p) = 3
          \/ p[3] = "tool_calls" /\ Len(p) = 4 /\ p[4] \in Ids \cup {"arguments"}
ResponsesShape(p) ==
    \/ p[1] \in {"instructions", "tools", "text", "response_format", "tool_choice", "reasoning",
                 "metadata", "extra", "user", "model"}
    \/ /\ p[1] = "input"
       /\ Len(p) > 1 /\ p[2] = "message" =>
              /\ Len(p) > 3
              /\ p[4] \in {"output_text", "refusal"} /\ Len(p) > 4 => p[5] = "extra"
              /\ p[4] = "image" => Len(p) > 4 /\ p[5] \in {"url", "data64", "extra"}
       /\ Len(p) > 1 /\ p[2] \in {"function_call", "function_call_output"} =>
              /\ Len(p) > 2 /\ p[3] \in Ids \cup {"arguments", "output", "extra"}
              /\ p[3] \in Ids => Len(p) = 3
Shape(w, p) ==
    CASE w = "chat" -> ChatShape(p) [] w = "responses" -> ResponsesShape(p) [] OTHER -> AnthropicShape(p)

ASSUME WalkAssumption ==
    /\ Known \in Lookup /\ MaxLeaves \in Nat /\ Replies \subseteq Seq(Char)
    /\ \A w \in Wire : \A p \in Paths[w] : p \in Seq(STRING) /\ p # <<>> /\ Shape(w, p)

Surface == {"user", "system", "tool_result", "assistant", "tool_input"}
\* What a leaf holds: personal data, the same inside user bypass markers, or a secret's value;
\* key when it is an object key rather than a value.
What == {"pii", "marked", "secret"}

VARIABLES
    api, typed,   \* the endpoint; does the body fit its typed schema?
    body,          \* the leaves, in the order of the walk
    off,           \* force_disabled
    registered,    \* the engine holds the secret's rule
    knew,          \* history: it did when the body arrived
    phase, at,     \* where the walk is
    warm,          \* the prewarm: none, a batch, or given up at a scan
    sent,          \* what became of each leaf walked
    status,        \* the refusal, "sent" or "none"
    reply          \* the part of the reply last restored

walkVars == <<api, typed, body, off, registered, knew, phase, at, warm, sent, status, reply>>

-----------------------------------------------------------------------------
Mask(s) == [do |-> "mask", on |-> s]
Scan == [do |-> "scan", on |-> "user"]
Skip == [do |-> "skip", on |-> "user"]

AnthropicContract ==
    {"model", "tool_choice", "thinking", "output_config", "format", "json_schema", "schema",
     "input_schema", "cache_control", "id", "tool_use_id", "signature", "data", "media_type", "type"}
ChatContract ==
    {"model", "tools", "tool_choice", "response_format", "json_schema", "schema", "input_schema",
     "parameters", "guided_regex", "guided_grammar", "guided_choice"}
ResponsesContract ==
    {"model", "tools", "tool_choice", "response_format", "text", "format", "json_schema", "schema",
     "input_schema", "parameters", "id", "item_id", "call_id", "file_id", "filename", "file_data",
     "image_file", "input_image", "encrypted_content", "signature"}
ProtocolKeys ==
    {"type", "keep", "trigger", "clear_at_least", "clear_tool_inputs", "exclude_tools"}

\* The first of the positions of p that satisfy a test decides; 0 when there is none.
FirstOf(S) == IF S = {} THEN 0 ELSE CHOOSE i \in S : \A j \in S : i <= j

\* value_safe and map_safe of the OpenAI walkers: contract subtrees are scanned, base64 is not.
ValueSafe(p, contract, surface) ==
    LET i == FirstOf({j \in DOMAIN p : p[j] \in contract \cup {"data64"}})
    IN  IF i = 0 THEN Mask(surface) ELSE IF p[i] = "data64" THEN Skip ELSE Scan

\* value_skipping_protocol_keys, of the keys below context_management.
ContextManagement(p) ==
    IF \E j \in DOMAIN p : p[j] \in ProtocolKeys THEN Skip ELSE Mask("system")

\* surface_for_role.
RoleSurface(w, role) ==
    CASE role = "assistant" -> "assistant"
      [] w # "anthropic" /\ role = "tool" -> "tool_result"
      [] w # "anthropic" /\ role \in {"system", "developer"} -> "system"
      [] OTHER -> "user"

\* The image parts of the OpenAI wires.
Linked(p, surface) == IF p[Len(p)] = "data64" THEN Skip ELSE Mask(surface)

\* image and document of walk.rs: only the address of a Url source; inline data and a
\* document's other fields are neither masked nor scanned.
SourceOf(p, surface) ==
    IF Len(p) = 3 /\ p[2] = "source" /\ p[3] = "url" THEN Mask(surface) ELSE Skip

\* tool_result, of its content, and block, of the path from the block's kind on.
ToolResult(p) ==
    CASE p \in {<<>>, <<"text", "text">>} -> Mask("tool_result")
      [] p # <<>> /\ p[1] \in {"image", "document"} -> SourceOf(p, "tool_result")
      [] OTHER -> Skip
Block(p, role) ==
    CASE p = <<"text", "text">> -> Mask(RoleSurface("anthropic", role))
      [] p[1] = "tool_use" /\ p[2] = "input" -> Mask("tool_input")
      [] p[1] = "tool_result" /\ p[2] = "content" -> ToolResult(SubSeq(p, 3, Len(p)))
      [] p[1] \in {"image", "document"} -> SourceOf(p, "user")
      [] p = <<"compaction", "content">> -> Mask("assistant")
      [] p[1] = "extra" -> Scan    \* of the message
      [] OTHER -> Skip             \* thinking, kinds without an arm, other fields

\* MaskWalker::request of walk.rs.
AnthropicWalk(p) ==
    CASE p[1] = "system" -> IF Len(p) > 1 THEN Scan ELSE Mask("system")
      [] p[1] = "messages" -> Block(SubSeq(p, 3, Len(p)), p[2])
      [] p[1] = "tools" -> CASE p[2] = "description" -> Mask("system")
                             [] p[2] \in {"input_schema", "extra"} -> Scan
                             [] OTHER -> Skip
      [] p[1] \in {"output_config", "extra"} -> Scan
      [] p[1] = "metadata" -> IF Len(p) > 1 /\ p[2] = "user_id" THEN Skip ELSE Mask("user")
      [] p[1] = "context_management" -> ContextManagement(Tail(p))
      [] OTHER -> Skip

\* Deviation: the fallback treats tool definitions as a contract and masks nothing in them.
FallbackWalkTools(p) ==
    IF \E j \in DOMAIN p : p[j] \in AnthropicContract \cup {"tools"} THEN Scan ELSE Mask("user")

\* The key at j is one of a tool's: in a tool, tools is a key as any other.
OfTool(p, j) ==
    \E k \in 1..(j - 1) :
        /\ \A m \in k..(j - 1) : p[m] = "tools"
        /\ (j - k) % 2 = 1 /\ (k > 1 => p[k - 1] # "tools")

\* The arm of tool_value_safe that leaves a key alone.
ToolTag(p, j) == OfTool(p, j) /\ p[j] \in {"cache_control", "name", "type"}
Decides(p, j) ==
    \/ p[j] \in AnthropicContract \cup {"data64"}
    \/ p[j] = "context_management" /\ ~OfTool(p, j)
    \/ ToolTag(p, j)

\* value_safe, tools_value_safe and tool_value_safe: the walk of a body no type fits.
FallbackFrom(p, i) ==
    CASE p[i] = "data64" \/ ToolTag(p, i) -> Skip
      [] p[i] = "context_management" -> ContextManagement(SubSeq(p, i + 1, Len(p)))
      [] OTHER -> Scan
FallbackWalk(p) ==
    LET i == FirstOf({j \in DOMAIN p : Decides(p, j)})
    IN  IF i = 0 THEN Mask(IF "tools" \in ToSet(p) THEN "system" ELSE "user") ELSE FallbackFrom(p, i)

\* message and content of openai_chat.rs, from the field of the message on.
ChatMessage(p, role) ==
    CASE p[1] = "content" -> Mask(RoleSurface("chat", role))
      [] p[1] = "image_url" -> IF p[2] = "extra" THEN ValueSafe(p, ChatContract, RoleSurface("chat", role))
                               ELSE Linked(p, RoleSurface("chat", role))
      [] p[1] = "tool_call_id" -> IF role = "tool" THEN Mask("tool_result") ELSE Skip
      [] p[1] = "name" -> Mask("user")
      [] p[1] = "tool_calls" -> IF p[2] = "arguments" THEN Mask("tool_input") ELSE Skip
      [] OTHER -> ValueSafe(p, ChatContract, RoleSurface("chat", role))    \* extra

\* MaskWalker::request of openai_chat.rs.
ChatWalk(p) ==
    CASE p[1] = "messages" -> ChatMessage(SubSeq(p, 3, Len(p)), p[2])
      [] p[1] \in {"tools", "response_format", "tool_choice", "guided_regex", "guided_grammar",
                   "guided_choice"} -> Scan
      [] p[1] = "extra" -> ValueSafe(p, ChatContract, "user")
      [] OTHER -> Skip    \* user, model

\* content of openai_responses.rs, from the kind of the part on.
ResponsesPart(p, surface) ==
    IF Len(p) > 1 /\ p[2] = "extra"
    THEN ValueSafe(Tail(p), ResponsesContract, IF p[1] = "refusal" THEN "assistant" ELSE surface)
    ELSE CASE p[1] = "output_text" -> Mask(surface)
           [] p[1] = "refusal" -> Mask("assistant")
           [] p[1] = "image" -> Linked(p, surface)
           [] p[1] = "file" -> Skip
           [] OTHER -> ValueSafe(p, ResponsesContract, surface)

\* input, input_item, message, function_call and function_output.
ResponsesInput(p) ==
    IF p = <<>> THEN Mask("user")
    ELSE CASE p[1] = "message" -> ResponsesPart(SubSeq(p, 3, Len(p)), RoleSurface("responses", p[2]))
           [] p[1] \in {"function_call", "function_call_output"} ->
                  LET surface == IF p[1] = "function_call" THEN "tool_input" ELSE "tool_result"
                  IN  CASE p[2] \in {"arguments", "output"} -> Mask(surface)
                        [] p[2] = "extra" -> ValueSafe(Tail(p), ResponsesContract, surface)
                        [] OTHER -> Skip
           [] OTHER -> ValueSafe(p, ResponsesContract, "user")

\* MaskWalker::request of openai_responses.rs.
ResponsesWalk(p) ==
    CASE p[1] = "input" -> ResponsesInput(Tail(p))
      [] p[1] = "instructions" -> Mask("system")
      [] p[1] \in {"tools", "text", "response_format", "tool_choice", "reasoning"} -> Scan
      [] p[1] \in {"metadata", "extra"} -> ValueSafe(p, ResponsesContract, "user")
      [] OTHER -> Skip

Walk(w, fits, p) ==
    CASE w = "chat" -> ChatWalk(p)
      [] w = "responses" -> ResponsesWalk(p)
      [] OTHER -> IF fits THEN AnthropicWalk(p) ELSE FallbackWalk(p)

-----------------------------------------------------------------------------
\* str: MaskEngine::mask of a leaf, or mask_when_disabled.
MaskLeaf(leaf, surface) ==
    IF leaf.key THEN "verbatim"    \* only values are visited
    ELSE CASE leaf.what = "secret" -> IF registered THEN "token" ELSE "verbatim"
           [] leaf.what = "pii" -> IF off THEN "verbatim" ELSE "token"
           [] OTHER -> IF off \/ surface = "user" THEN "verbatim" ELSE "token"

\* scan_value and scan_map see keys as well as values.
Hit(leaf) == leaf.what = "secret" /\ registered

Treat(leaf) == Walk(api, typed, leaf.path)

NoReply == [part |-> "none", of |-> <<>>, to |-> <<>>]

WalkTypeOK ==
    /\ api \in Wire /\ typed \in BOOLEAN /\ off \in BOOLEAN
    /\ registered \in BOOLEAN /\ (knew => registered)
    /\ phase \in {"idle", "prewarm", "walk", "reply", "restore", "done"}
    /\ at \in 1..(MaxLeaves + 1) /\ Len(sent) = at - 1
    /\ \A i \in DOMAIN sent : sent[i] \in {"token", "verbatim"}
    /\ warm \in {"none", "batch", "given_up"}
    /\ status \in {"none", "400", "409", "sent"}

WalkInit ==
    /\ api \in Wire /\ typed = TRUE /\ body = <<>> /\ off = FALSE
    /\ registered \in BOOLEAN /\ knew = FALSE
    /\ phase = "idle" /\ at = 1 /\ warm = "none" /\ sent = <<>>
    /\ status = "none" /\ reply = NoReply

LeavesOf(w) == [path : Paths[w], what : What, key : {FALSE}]
               \cup [path : Paths[w], what : {"secret"}, key : {TRUE}]
Bodies(w) == UNION {[1..n -> LeavesOf(w)] : n \in 1..MaxLeaves}

\* mask_request_inner: a body that does not fit goes to the fallback on the Anthropic wire and
\* is refused on the others.
Receive ==
    /\ phase = "idle"
    /\ body' \in Bodies(api) /\ typed' \in BOOLEAN /\ off' \in BOOLEAN /\ knew' = registered
    /\ IF typed' \/ api = "anthropic"
       THEN phase' = "prewarm" /\ UNCHANGED status
       ELSE phase' = "done" /\ status' = "400"
    /\ UNCHANGED <<api, registered, at, warm, sent, reply>>

\* prewarm_request: the same traversal in COLLECT mode, when a model is ready.  A scan that
\* hits ends it, and the masking pass goes on all the same.
Prewarm ==
    /\ phase = "prewarm"
    /\ warm' \in IF typed /\ ~off
                 THEN {"none", IF \E leaf \in ToSet(body) : Treat(leaf).do = "scan" /\ Hit(leaf)
                               THEN "given_up" ELSE "batch"}
                 ELSE {"none"}
    /\ phase' = "walk"
    /\ UNCHANGED <<api, typed, body, off, registered, knew, at, sent, status, reply>>

\* One leaf of the masking pass.
WalkLeaf ==
    /\ phase = "walk" /\ at <= Len(body)
    /\ LET leaf == body[at]
           t == Treat(leaf)
       IN  IF t.do = "scan" /\ Hit(leaf)
           THEN phase' = "done" /\ status' = "409" /\ UNCHANGED <<at, sent>>
           ELSE /\ sent' = Append(sent, IF t.do = "mask" THEN MaskLeaf(leaf, t.on) ELSE "verbatim")
                /\ at' = at + 1
                /\ UNCHANGED <<phase, status>>
    /\ UNCHANGED <<api, typed, body, off, registered, knew, warm, reply>>

\* Serialized and sent.
Forward ==
    /\ phase = "walk" /\ at > Len(body)
    /\ phase' = "reply" /\ status' = "sent"
    /\ UNCHANGED <<api, typed, body, off, registered, knew, at, warm, sent, reply>>

\* The upstream answers: the body is done with.
Answered ==
    /\ phase = "reply"
    /\ phase' = "restore" /\ status' = "none"
    /\ body' = <<>> /\ at' = 1 /\ sent' = <<>> /\ warm' = "none"
    /\ off' = FALSE /\ knew' = FALSE /\ typed' = TRUE
    /\ UNCHANGED <<api, registered, reply>>

\* A late secret's rule is installed while a body is walked.
Register ==
    /\ ~registered /\ phase # "done"
    /\ registered' = TRUE
    /\ UNCHANGED <<api, typed, body, off, knew, phase, at, warm, sent, status, reply>>

-----------------------------------------------------------------------------
(* The whole reply.                                                        *)

\* The parts of a reply, as the client and its tools use them.
Parts(w) ==
    CASE w = "anthropic" -> {"text", "tool_leaf", "compaction", "thinking", "extra"}
      [] w = "chat" -> {"text", "tool_raw", "extra"}
      [] OTHER -> {"text", "tool_raw", "tool_leaf", "tool_output", "extra"}

\* unmask_block, unmask_message, unmask_output_item: tool_leaf is tool input as a value (ToolUse,
\* Other items and parts, a function call's extra), tool_raw the arguments string.
UnmaskPart(part, s) ==
    CASE part = "text" -> UnmaskAssistant(s, TRUE, Known)
      [] part = "tool_raw" -> UnmaskToolInput(s, Known)
      [] part = "tool_leaf" -> UnmaskDecodedLeaf(s, Known)
      [] part = "thinking" -> s
      [] OTHER -> UnmaskOther(s, Known)

\* A string as it stands in JSON source.
Encoded(s) ==
    <<Quote>> \o FlattenSeq([i \in DOMAIN s |->
        IF s[i] \in {Quote, Backslash} THEN <<Backslash, s[i]>> ELSE <<s[i]>>]) \o <<Quote>>

\* unmask_response, one part at a time.
Respond ==
    /\ phase = "restore"
    /\ \E part \in Parts(api), s \in Replies :
         reply' = [part |-> part, of |-> s,
                   to |-> UnmaskPart(part, IF part = "tool_raw" THEN Encoded(s) ELSE s)]
    /\ phase' = "done"
    /\ UNCHANGED <<api, typed, body, off, registered, knew, at, warm, sent, status>>

WalkNext ==
    \/ Receive \/ Prewarm \/ WalkLeaf \/ Forward \/ Answered \/ Register \/ Respond

WalkSpec == WalkInit /\ [][WalkNext]_walkVars

-----------------------------------------------------------------------------
\* What passes through verbatim and unscanned by design: telemetry, opaque and binary data,
\* names and ids the API validates, the tags of context management and of tool definitions.
Opaque(p) ==
    \/ p[1] \in {"user", "model"} \/ "data64" \in ToSet(p)
    \/ p[1] = "metadata" /\ Len(p) > 1 /\ p[2] = "user_id"
    \/ p[1] = "input" /\ Len(p) > 3 /\ p[2] = "message" /\ p[4] = "file"
    \/ Len(p) > 1 /\ p[Len(p)] \in Ids /\ p[Len(p) - 1] \notin {"input", "extra"}
    \/ \E i, j \in DOMAIN p : i < j /\ p[i] = "context_management" /\ p[j] \in ProtocolKeys
    \/ \E j \in DOMAIN p : j > 1 /\ p[j - 1] = "tools" /\ p[j] \in {"cache_control", "name", "type"}

\* The texts of a block: prose, a summary, tool input and output, and a link.
Links == {<<"image", "source", "url">>, <<"document", "source", "url">>}
BlockText(p) ==
    \/ p \in {<<"text", "text">>, <<"compaction", "content">>} \cup Links
    \/ p[1] = "tool_use" /\ p[2] = "input"
    \/ p[1] = "tool_result" /\ p[2] = "content"
       /\ SubSeq(p, 3, Len(p)) \in {<<>>, <<"text", "text">>} \cup Links

\* What else a block may hold, and the typed walk does not look at: thinking, a document's
\* title, context, citations and inline source, a block of a kind that has no arm.
Unread(p) == p[1] = "messages" /\ p[3] # "extra" /\ ~BlockText(SubSeq(p, 3, Len(p)))

\* A secret registered before a body came is in no value that is sent, on any wire, through the
\* typed walk or the fallback and with masking off or on: it is a token, or the request is
\* refused (the scans of every contract subtree; the arm order in tool_value_safe).  The
\* promise ends where the typed walk does, at the fields of a block it does not read; the
\* fallback reads those too.
RegisteredStaysHome ==
    status = "sent" /\ knew =>
        \A i \in DOMAIN body :
            (/\ body[i].what = "secret" /\ ~body[i].key /\ ~Opaque(body[i].path)
             /\ ~(api = "anthropic" /\ typed /\ Unread(body[i].path))) => sent[i] = "token"

\* "The request path masks every outbound text field" said of a document, which does NOT hold:
\* its title, context and inline text are sent as they came (Walker::block, Walker::document).
DocumentsStayHome ==
    status = "sent" /\ knew =>
        \A i \in DOMAIN body :
            (/\ body[i].what = "secret" /\ ~body[i].key /\ ~Opaque(body[i].path)
             /\ "document" \in ToSet(body[i].path)) => sent[i] = "token"

\* walk.rs: a body that does not fit the types is masked no less than one that does.  Personal
\* data the typed walk would have masked is masked, but under the contract keys, in binary data
\* and below what looks like tool definitions or context management.
FallbackCovers ==
    api = "anthropic" /\ ~typed /\ status = "sent" /\ ~off =>
        \A i \in DOMAIN body :
            (/\ body[i].what = "pii" /\ ~body[i].key /\ AnthropicWalk(body[i].path).do = "mask"
             /\ ToSet(body[i].path) \cap (AnthropicContract \cup {"data64"}) = {}
             /\ \A j \in DOMAIN body[i].path \ {1} : body[i].path[j] \notin {"tools", "context_management"})
                => sent[i] = "token"

\* What the user did not write.  Images, documents and the names of participants count as the
\* user's in every role.
NotTheUsers(p) ==
    \/ p[1] \in {"system", "instructions"}
    \/ /\ p[1] = "messages" /\ p[3] \notin {"image", "document", "name"}
       /\ \/ p[2] \in {"assistant", "system", "developer", "tool"}
          \/ p[3] \in {"tool_use", "tool_result", "compaction", "tool_calls"}
    \/ /\ p[1] = "input" /\ Len(p) > 1
       /\ \/ p[2] \in {"function_call", "function_call_output"}
          \/ p[2] = "message" /\ p[3] \in {"assistant", "system", "developer", "tool"}

\* Through the typed walks only what the user wrote honours the bypass markers: a tool's output,
\* a system prompt or earlier assistant text cannot switch masking off (the surface each
\* walker passes to str).
OnlyUsersBypass ==
    status = "sent" /\ ~off /\ typed =>
        \A i \in DOMAIN body :
            (/\ body[i].what = "marked" /\ ~body[i].key /\ sent[i] = "verbatim"
             /\ Treat(body[i]).do = "mask") => ~NotTheUsers(body[i].path)

\* prewarm_request: "if it somehow did [error], just skip the prewarm": a collecting pass that met
\* a registered secret is always followed by the refusal of the masking pass.
GivenUpIsRefused == warm = "given_up" => status # "sent"

Restored(s) == {s[j].of : j \in {k \in DOMAIN s : s[k] \notin Char}}

\* No part of a reply that a tool acts on gets a credential, a custom literal or an owner-only
\* value that was not promoted back, whatever wire and item type carried it, and thinking stays
\* as it was signed (the gate in unmask_block, unmask_message and unmask_output_item).
ToolsStayGated ==
    /\ reply.part = "thinking" => reply.to = reply.of
    /\ reply.part \in {"tool_raw", "tool_leaf"} =>
           \A h \in Restored(reply.to) :
               /\ h \notin Literal \cup BrokerHandle
               /\ IF h \in Known.local THEN h \in Known.promoted ELSE ~Gated(h)

\* The arguments string of the OpenAI wires gives a tool no more than the decoded input of the
\* Anthropic one, and what it gives is escaped, promoted values aside; a lone token comes back
\* through both.
RawAgreesWithLeaf ==
    reply.part = "tool_raw" =>
        /\ Restored(reply.to) \subseteq Restored(UnmaskDecodedLeaf(reply.of, Known))
        /\ \A j \in DOMAIN reply.to :
               reply.to[j] \notin Char /\ reply.to[j].of \notin Known.local => reply.to[j].esc
        /\ TokenAt(reply.of, 1) /\ Len(reply.of) = 3 =>
               Restored(reply.to) = Restored(UnmaskDecodedLeaf(reply.of, Known))

\* Every wire, and the fallback walk behind each, protects what the others do, on
\* the way out and on the way back.
WalkProtects ==
    /\ WalkTypeOK
    /\ GivenUpIsRefused
    /\ RegisteredStaysHome
    /\ FallbackCovers
    /\ OnlyUsersBypass
    /\ ToolsStayGated
    /\ RawAgreesWithLeaf
=============================================================================
