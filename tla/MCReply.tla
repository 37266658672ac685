------------------------------ MODULE MCReply ------------------------------
(* Three parts of the request path that share no state here, checked in    *)
(* one run: the relay of streamed text, the walk over a body and over the  *)
(* parts of a whole reply, and the scan of one address in a text for its   *)
(* credentials.  Init picks the part that moves; the others rest in one of *)
(* their initial states.                                                   *)
EXTENDS Stream, Walk, UrlCredential

CONSTANTS gated, whole, net, broker, local, lit, unknown, v1, v2, v3, v4, v5, v6

MCRestore == [h \in Handle |-> IF h = net THEN "embedded" ELSE IF h = whole THEN "whole" ELSE "gated"]
MCLook ==
    [plain |-> [h \in Handle |-> CASE h = gated -> v1 [] h = whole -> v2 [] h = net -> v3
                                   [] h = local -> v4 [] h = broker -> v5 [] OTHER -> None],
     local |-> {local}, promoted |-> {},
     literal |-> [h \in Handle |-> IF h = lit THEN v6 ELSE None]]

Piece == {Token(h) : h \in Handle} \cup
         {<<LB>>, <<LB, net>>, <<Word>>, <<Quote>>, <<Backslash, Quote>>, <<LB, net, whole>>}
Text(n) == {FlattenSeq(p) : p \in [1..n -> Piece]}
Str(s) == <<Quote>> \o s \o <<Quote>>
Alone(texts) ==
    {[i \in Index |-> IF i = 1 THEN [kind |-> k, text |-> t] ELSE [kind |-> None, text |-> <<>>]] :
        k \in Kind, t \in texts}
Beside(texts) ==
    {[i \in Index |-> IF i = 1 THEN [kind |-> k, text |-> t] ELSE [kind |-> "json", text |-> Token(whole)]] :
        k \in Kind, t \in texts}
\* Up to two pieces, one in quotes, a key and a value; and two blocks side by side.
MCAnthropic ==
    Alone(Text(1) \cup Text(2) \cup {Str(u) : u \in Text(1)}
          \cup {Str(<<Word>>) \o <<Colon>> \o Str(Token(whole))})
    \cup Beside(Text(1))
Choice(k, t) == [kind |-> k, text |-> t]
\* Two choices or items of the OpenAI wires: prose and a tool call, or prose twice.
MCOpenAi ==
    {[i \in Index |-> IF i = 1 THEN Choice(k, t) ELSE c] :
        k \in {"text", "json"},
        t \in Text(1) \cup {p \o Token(net) : p \in {<<Word>>, <<LB>>, <<LB, net>>}}
                     \cup {Str(Token(whole)), Str(Token(net))},
        c \in {Choice("text", Token(net)), Choice("json", Token(gated)), Choice(None, <<>>)}}
MCScript == [w \in Wires |-> IF w = "anthropic" THEN MCAnthropic ELSE MCOpenAi]

-----------------------------------------------------------------------------
\* A token alone, padded, in quotes, before a quote, in a longer string, and two of them.
MCReplies ==
    UNION {{Token(h), <<Blank>> \o Token(h), <<Quote>> \o Token(h) \o <<Quote>>, Token(h) \o <<Quote>>,
            <<Word>> \o Token(h), <<Quote>> \o Token(h) \o <<Quote, Colon>>, Token(h) \o Token(net)} :
           h \in Handle}

MCPaths == [w \in Wire |->
    CASE w = "anthropic" ->
           {<<"system">>, <<"system", "extra", "k">>, <<"messages", "user", "text", "text">>,
            <<"messages", "assistant", "tool_use", "input", "k">>,
            <<"messages", "assistant", "tool_use", "input", "data">>,
            <<"messages", "user", "tool_result", "content">>, <<"messages", "user", "image", "source", "data64">>,
            <<"messages", "user", "document", "title">>, <<"messages", "user", "document", "source", "data">>,
            <<"messages", "user", "tool_result", "content", "document", "source", "url">>,
            <<"messages", "user", "tool_result", "content", "document", "context">>,
            <<"messages", "assistant", "compaction", "content">>,
            <<"messages", "assistant", "thinking", "thinking">>, <<"messages", "user", "extra", "k">>,
            <<"tools", "description">>, <<"tools", "input_schema", "k">>, <<"tools", "name">>,
            <<"output_config", "k">>, <<"metadata", "user_id">>, <<"metadata", "k">>,
            <<"context_management", "edits", "k">>, <<"context_management", "edits", "trigger">>}
      [] w = "chat" ->
           {<<"messages", "user", "content">>, <<"messages", "tool", "content">>,
            <<"messages", "tool", "tool_call_id">>, <<"messages", "developer", "content">>,
            <<"messages", "assistant", "tool_calls", "arguments">>, <<"messages", "assistant", "tool_calls", "id">>,
            <<"messages", "user", "image_url", "data64">>, <<"messages", "assistant", "extra", "k">>,
            <<"tools", "parameters">>, <<"response_format", "k">>, <<"guided_choice", "k">>,
            <<"user", "k">>, <<"extra", "parameters", "k">>, <<"extra", "k">>}
      [] OTHER ->
           {<<"input">>, <<"input", "message", "user", "output_text">>,
            <<"input", "message", "user", "refusal">>, <<"input", "message", "user", "file", "file_data">>,
            <<"input", "message", "system", "image", "url">>, <<"input", "function_call", "arguments">>,
            <<"input", "function_call", "call_id">>, <<"input", "function_call", "extra", "id">>,
            <<"input", "function_call_output", "output">>, <<"input", "item", "encrypted_content">>,
            <<"instructions">>, <<"metadata", "k">>, <<"text", "format">>, <<"reasoning", "k">>,
            <<"extra", "k">>, <<"extra", "schema", "k">>}]

-----------------------------------------------------------------------------
VARIABLE part   \* the part that moves

replyVars == <<part, svars, walkVars, urlVars>>

StreamRests ==
    /\ wire = "chat"
    /\ script = [i \in Index |-> [kind |-> "text", text |-> Token(net)]]
    /\ StreamInit
WalkRests == api = "anthropic" /\ registered = FALSE /\ WalkInit
UrlRests == address = [i \in 1..AddressLength |-> <<"v", 0>>] /\ UrlInit

\* An address without the name of a credential parameter has nothing to find.
Named == \E i \in DOMAIN address : address[i] = <<"name", 0>>

ReplyInit ==
    \/ part = "stream" /\ StreamInit /\ WalkRests /\ UrlRests
    \/ part = "walk" /\ StreamRests /\ WalkInit /\ UrlRests
    \/ part = "url" /\ UrlInit /\ Named /\ StreamRests /\ WalkRests

ReplyNext ==
    /\ UNCHANGED part
    /\ \/ part = "stream" /\ StreamNext /\ UNCHANGED <<walkVars, urlVars>>
       \/ part = "walk" /\ WalkNext /\ UNCHANGED <<svars, urlVars>>
       \/ part = "url" /\ UrlNext /\ UNCHANGED <<svars, walkVars>>

ReplySpec == ReplyInit /\ [][ReplyNext]_replyVars

\* A credential whose "=" is encoded, and in its value another one that holds an encoded "&".
Crossing == <<<<"name", 0>>, <<"=", 1>>, <<"?", 0>>, <<"name", 0>>, <<"=", 0>>, <<"v", 0>>,
              <<"&", 1>>, <<"v", 0>>>>
CrossingInit == part = "url" /\ StreamRests /\ WalkRests /\ address = Crossing /\ UrlInit
CrossingSpec == CrossingInit /\ [][ReplyNext]_replyVars
=============================================================================
