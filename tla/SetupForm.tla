----------------------------- MODULE SetupForm ------------------------------
(***************************************************************************)
(* Provisioning: the form the stick serves in its own network, the request *)
(* a browser submits it with, and the server that reads, decodes, checks   *)
(* and saves it (provisioning_server of firmware/src/network.rs).          *)
(*                                                                         *)
(* A request is its request line, the end of its headers and its body, as  *)
(* tokens: a name of a field is one, any byte of a value is one.  A value  *)
(* is a sequence of bytes; xC3 xA9 are one character.  TCP and flash are   *)
(* external: bytes arrive in portions, the connection may end or stall     *)
(* (for 15 s) anywhere, and a save may fail.                               *)
(***************************************************************************)
EXTENDS Naturals, Sequences, SequencesExt, FiniteSetsExt

CONSTANTS Ssids, Passwords, Hostnames, Topics,   \* what a user may enter
          MaxName,       \* bytes of an SSID and of a hostname (32)
          MaxPassword,   \* bytes of a password (63)
          MaxTopic,      \* bytes of a topic (128)
          MaxRequest     \* tokens the request buffer holds (3072 bytes)

VARIABLES at,       \* provisioning_server: "accept", "read", "respond" or "restart"
          form,     \* what the user has submitted
          wire,     \* tokens of the request still to come
          request,  \* request[..len]
          ended,    \* ghost: reading ended before the request was there
          answer,   \* "page", "saved" or "invalid"
          saved     \* settings this boot has saved

vars == <<at, form, wire, request, ended, answer, saved>>

Alphanumeric == {"a", "b", "2"}

Fields == {"ssid", "password", "hostname", "ntfy_topic"}

None == [none |-> TRUE]

-----------------------------------------------------------------------------
(* The form in the browser.                                                *)

Hex == [b \in {"!", "%", "&", "+", "=", "xC3", "xA9"} |->
          CASE b = "!" -> <<"2", "1">> [] b = "%" -> <<"2", "5">> [] b = "&" -> <<"2", "6">>
            [] b = "+" -> <<"2", "B">> [] b = "=" -> <<"3", "D">>
            [] b = "xC3" -> <<"C", "3">> [] b = "xA9" -> <<"A", "9">>]

Bytes == Alphanumeric \cup {" ", "-", "_"} \cup DOMAIN Hex

IsUtf8(bytes) ==
    \A i \in DOMAIN bytes :
        /\ bytes[i] = "xC3" => i < Len(bytes) /\ bytes[i + 1] = "xA9"
        /\ bytes[i] = "xA9" => i > 1 /\ bytes[i - 1] = "xC3"

FormAssumption ==
    /\ MaxName \in Nat /\ MaxPassword \in Nat /\ MaxTopic \in Nat /\ MaxRequest \in Nat
    /\ \A value \in Ssids \cup Passwords \cup Hostnames \cup Topics : value \in Seq(Bytes) /\ IsUtf8(value)

Characters(value) == Len(SelectSeq(value, LAMBDA b : b # "xA9"))

\* provisioning_page: required, and maxlength, which counts characters.
Submittable ==
    {f \in [ssid : Ssids, password : Passwords, hostname : Hostnames, ntfy_topic : Topics] :
        /\ \A name \in {"ssid", "hostname", "ntfy_topic"} : f[name] # <<>>
        /\ Characters(f.ssid) <= MaxName /\ Characters(f.hostname) <= MaxName
        /\ Characters(f.password) <= MaxPassword /\ Characters(f.ntfy_topic) <= MaxTopic}

\* application/x-www-form-urlencoded.
Escaped(b) == IF b = " " THEN <<"+">> ELSE IF b \in DOMAIN Hex THEN <<"%">> \o Hex[b] ELSE <<b>>

Encoded(value) ==
    LET encoded[n \in 0..Len(value)] ==
          IF n = 0 THEN <<>> ELSE encoded[n - 1] \o Escaped(value[n])
    IN  encoded[Len(value)]

Body(f) ==
    <<"ssid", "=">> \o Encoded(f.ssid) \o <<"&", "password", "=">> \o Encoded(f.password)
      \o <<"&", "hostname", "=">> \o Encoded(f.hostname)
      \o <<"&", "ntfy_topic", "=">> \o Encoded(f.ntfy_topic)

Post(f) == <<"POST /configure ", "end of headers">> \o Body(f)

\* The buffer holds every request the page can make.
RequestsFit == 2 <= MaxRequest /\ \A f \in Submittable : Len(Post(f)) <= MaxRequest

-----------------------------------------------------------------------------
(* parse_provisioning.                                                     *)

HexDigit == {"0", "1", "2", "3", "5", "6", "9", "a", "b", "A", "B", "C", "D"}

\* A pair that is no byte of this alphabet is some other byte.
ByteOf(pair) == IF \E b \in DOMAIN Hex : Hex[b] = pair
                THEN CHOOSE b \in DOMAIN Hex : Hex[b] = pair ELSE "other"

\* Mutant: an escape at the very end is taken for text.
EscapeBeforeEnd(value, i) == i + 2 < Len(value)

EscapeFits(value, i) == i + 2 <= Len(value)

\* One turn of the while loop of form_decode, whose indices start with 1.
Turn(value, loop) ==
    LET i == loop.index
        To(index, bytes) == [index |-> index, decoded |-> loop.decoded \o bytes]
    IN  IF i > Len(value) THEN loop
        ELSE IF value[i] = "+" THEN To(i + 1, <<" ">>)
        ELSE IF value[i] = "%" /\ EscapeFits(value, i)
        THEN IF value[i + 1] \in HexDigit /\ value[i + 2] \in HexDigit
             THEN To(i + 3, <<ByteOf(<<value[i + 1], value[i + 2]>>)>>)
             ELSE To(i + 1, <<>>)
        ELSE To(i + 1, <<value[i]>>)

\* The bytes of form_decode; every turn takes a byte or more.
Decoded(value) ==
    LET turns[n \in 0..Len(value)] ==
          IF n = 0 THEN [index |-> 1, decoded |-> <<>>] ELSE Turn(value, turns[n - 1])
    IN  turns[Len(value)].decoded

form_decode(value) == IF IsUtf8(Decoded(value)) THEN Decoded(value) ELSE <<>>

\* split('&'): where the fields of a body start, and where the one from i ends.
Starts(body) == {i \in DOMAIN body : i = 1 \/ body[i - 1] = "&"}

FieldEnd(body, i) == Max({e \in i..Len(body) : \A k \in i..e : body[k] # "&"})

\* value(name): of the first field with that name and an "=", as an Option.
ValueOf(body, name) ==
    LET found == {i \in Starts(body) : i < Len(body) /\ body[i] = name /\ body[i + 1] = "="}
    IN  IF found = {} THEN <<>>
        ELSE <<form_decode(SubSeq(body, Min(found) + 2, FieldEnd(body, Min(found))))>>

\* Mutant: an empty hostname is not refused.
ValidWithoutHostname(p) ==
    /\ p.ssid # <<>> /\ Len(p.ssid) <= MaxName /\ Len(p.password) <= MaxPassword
    /\ Len(p.hostname) <= MaxName
    /\ p.ntfy_topic # <<>> /\ Len(p.ntfy_topic) <= MaxTopic

\* Provisioning::is_valid.
is_valid(p) ==
    /\ p.ssid # <<>> /\ Len(p.ssid) <= MaxName
    /\ Len(p.password) <= MaxPassword
    /\ p.hostname # <<>> /\ Len(p.hostname) <= MaxName
    /\ ToSet(p.hostname) \subseteq Alphanumeric \cup {"-"}
    /\ p.ntfy_topic # <<>> /\ Len(p.ntfy_topic) <= MaxTopic
    /\ ToSet(p.ntfy_topic) \subseteq Alphanumeric \cup {"-", "_"}

parse_provisioning(body) ==
    LET value == [name \in Fields |-> ValueOf(body, name)]
        provisioning == [name \in Fields |-> IF value[name] = <<>> THEN <<>> ELSE value[name][1]]
    IN  IF /\ \A name \in Fields \ {"password"} : value[name] # <<>>
           /\ is_valid(provisioning)
        THEN provisioning ELSE None

-----------------------------------------------------------------------------
(* The server: one connection after the other.                             *)

Init ==
    /\ at = "accept" /\ form = None /\ wire = <<>> /\ request = <<>>
    /\ ended = FALSE /\ answer = "page" /\ saved = None

\* A connection with a submitted form, or with a request for the page.
Accepts ==
    /\ at = "accept"
    /\ at' = "read" /\ request' = <<>> /\ ended' = FALSE
    /\ \/ form' \in Submittable /\ wire' = Post(form')
       \/ form' = None /\ wire' = <<"GET", "end of headers">>
    /\ UNCHANGED <<answer, saved>>

\* Mutant: the request is taken for complete with its headers.
CompleteWithHeaders(bytes, whole) == Len(bytes) >= 2

\* The headers have ended and content-length bytes of the body are there.
Complete(bytes, whole) == Len(bytes) = whole

\* read_request: one more portion.
Reads ==
    /\ at = "read" /\ wire # <<>> /\ Len(request) < MaxRequest
    /\ \E n \in 1..Len(wire) :
          /\ Len(request) + n <= MaxRequest
          /\ request' = request \o SubSeq(wire, 1, n)
          /\ wire' = SubSeq(wire, n + 1, Len(wire))
    /\ at' = IF Complete(request', Len(request) + Len(wire)) \/ Len(request') = MaxRequest
             THEN "respond" ELSE "read"
    /\ UNCHANGED <<form, ended, answer, saved>>

\* Mutant: a connection without a byte is waited for.
ReadEndsAfterData ==
    /\ at = "read" /\ request # <<>>
    /\ at' = "respond" /\ ended' = TRUE
    /\ UNCHANGED <<form, wire, request, answer, saved>>

\* Ok(0), an error, or the timeout of the socket.
ReadEnds ==
    /\ at = "read"
    /\ at' = "respond" /\ ended' = TRUE
    /\ UNCHANGED <<form, wire, request, answer, saved>>

\* The request is handled: a form that is valid and saved ends in a restart.
Responds ==
    /\ at = "respond"
    /\ LET posted == request # <<>> /\ request[1] = "POST /configure "
           settings == parse_provisioning(SubSeq(request, 3, Len(request)))
       IN  \/ /\ answer' = IF posted THEN "invalid" ELSE "page"   \* refused, or the flash failed
              /\ at' = "accept" /\ form' = None /\ wire' = <<>> /\ request' = <<>>
              /\ UNCHANGED saved
           \/ /\ posted /\ settings # None
              /\ answer' = "saved" /\ at' = "restart" /\ saved' = settings
              /\ UNCHANGED <<form, wire, request>>
    /\ UNCHANGED ended

\* software_reset; with the button held the stick comes back to provisioning.
Restarts ==
    /\ at = "restart"
    /\ at' = "accept" /\ answer' = "page" /\ form' = None /\ wire' = <<>> /\ request' = <<>>
    /\ saved' = None /\ UNCHANGED ended

Next == Accepts \/ Reads \/ ReadEnds \/ Responds \/ Restarts

Spec == Init /\ [][Next]_vars

\* The socket has a timeout, and the task runs.
FairSpec == Spec /\ WF_vars(ReadEnds) /\ WF_vars(Responds) /\ WF_vars(Restarts)

-----------------------------------------------------------------------------
(* Properties.                                                             *)

\* Whatever is submitted and wherever the connection ends, the settings that are
\* saved are ones Store::load takes and start_station can use: its hostname fits
\* option 12 and the topic needs no escaping in a URL.
SavedUsable == saved # None =>
    /\ saved.hostname # <<>> /\ Len(saved.hostname) <= MaxName
    /\ saved.ssid # <<>> /\ Len(saved.ssid) <= MaxName
    /\ \A b \in ToSet(saved.hostname) \cup ToSet(saved.ntfy_topic) : b \in Alphanumeric \cup {"-", "_"}

\* The network and its password are saved as they were typed, spaces, separators,
\* percent signs and characters of several bytes included.
SavedAsTyped == at = "restart" =>
    saved.ssid = form.ssid /\ saved.password = form.password /\ saved.hostname = form.hostname

\* However TCP cuts a request into portions, it is handled when it is there in full,
\* neither before its body has come nor waiting for more.
ReadToItsEnd == (at = "respond" /\ ~ended) => wire = <<>>

\* A client that stalls or goes away does not keep the server: there is one socket.
ServesAgain == []<>(at = "accept")

\* network.md: "Saving the form writes the settings to the final flash sector".  What
\* is written is what the form said.
FormIsSaved == at = "restart" => saved = form

=============================================================================
