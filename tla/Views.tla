------------------------------- MODULE Views --------------------------------
(***************************************************************************)
(* The snapshot as the stick shows it: on the pages of its LCD and on the  *)
(* web dashboard, as the daemon reports one snapshot after the other.      *)
(*                                                                         *)
(* Pages come from the daemon (Pages), what is drawn of them from the      *)
(* firmware (LcdViews and WebViews): the two crates do not share the       *)
(* numbers of rows.                                                        *)
(***************************************************************************)
EXTENDS LcdViews, Pages

CONSTANTS Configuration,   \* views, filesystems and disks of the daemon's configuration
          Usual,           \* a snapshot
          Changes          \* for a field of it, the other values it may take

VARIABLES snapshot,   \* the last one the stick received
          lcd,        \* for each page, the texts it draws
          web         \* the values of the dashboard

vars == <<snapshot, lcd, web>>

Web == INSTANCE WebViews

LcdPages(s) ==
    LET pages == compile_pages_for(Configuration, Configuration.lcd, Len(s.guests))
    IN  [k \in 1..Len(pages) |-> DrawPage(s, pages[k])]

WebSections(s) == Web!Sections(compile_pages_for(Configuration, Configuration.http, Len(s.guests)), s)

Shows(s) ==
    /\ snapshot = s
    /\ lcd = LcdPages(s)
    /\ web = WebSections(s)

Init == Shows(Usual)

\* The collector reports any snapshot; here one differs from Usual in one
\* field, which then goes on changing or returns to its usual value.
Report ==
    \E field \in DOMAIN Changes : \E value \in Changes[field] \cup {Usual[field]} :
        LET s == [Usual EXCEPT ![field] = value]
        IN  /\ snapshot = [Usual EXCEPT ![field] = snapshot[field]]
            /\ snapshot' = s /\ lcd' = LcdPages(s) /\ web' = WebSections(s)

Next == Report

Spec == Init /\ [][Next]_vars

Texts == ToSet(FlattenSeq(lcd))

\* The text fits into its buffer; heapless writes a piece whole or not at all.
Fits(text) == Length(text.text) <= text.capacity

\* What the LCD and the web say of one thing.
LcdSays(of) == {<<t.text, t.colour>> : t \in {u \in Texts : u.of = of}}

WebSays(of) == {<<v.text, v.class>> : v \in {w \in ToSet(web) : w.of = of}}

\* A difference on the LCD is one on the dashboard.
Followed(of) == LcdSays(of) # LcdSays(of)' => WebSays(of) # WebSays(of)'

-----------------------------------------------------------------------------
(* Properties.                                                             *)

\* Every filesystem, disk and guest of the snapshot has its row on some page of the
\* LCD, and on one only: the number of rows the firmware draws of a page is the one
\* by which the daemon cuts its views into pages.
EveryRowDrawn ==
    LET wanted == {<<"filesystem", k - 1>> : k \in 1..Len(snapshot.filesystems)}
                  \cup {<<"smart", k - 1>> : k \in 1..Len(snapshot.smart)}
                  \cup {<<"guest", k - 1>> : k \in 1..Len(snapshot.guests)}
    IN  \A of \in wanted :
           Cardinality({k \in 1..Len(lcd) : \E text \in ToSet(lcd[k]) : text.of = of}) = 1

\* First and last line of pixels of a text.
Top(text) == text.y - IF text.font = 10 THEN 15 ELSE 7

Bottom(text) == text.y + IF text.font = 10 THEN 4 ELSE 2

\* Texts of one column of a page do not overlap and stay inside its card, whatever
\* the rows there are and the line that a network error adds.
TextsApart ==
    \A k \in 1..Len(lcd) : \A a \in ToSet(lcd[k]) :
        /\ Top(a) >= 20 /\ Bottom(a) <= 121
        /\ \A b \in ToSet(lcd[k]) \ {a} :
              a.column = b.column => Bottom(a) < Top(b) \/ Bottom(b) < Top(a)

\* A formatted value has room in its buffer, up to the largest the protocol can
\* carry: what does not fit would be cut off or left out without an error.
TextsComplete == \A text \in Texts : Fits(text) \/ text.of = <<"cause">>

\* A change of state that the LCD shows is never hidden on the dashboard: the level,
\* a filesystem, a disk, a guest, the UPS and its load, and the address.
WebFollowsLcd ==
    [][snapshot' # snapshot =>
         \A of \in {<<"health">>, <<"ups">>, <<"battery">>, <<"ups load">>, <<"ipv4">>, <<"uptime">>,
                    <<"load">>, <<"memory">>, <<"guest count">>}
                   \cup {<<kind, k>> : kind \in {"filesystem", "smart", "guest"}, k \in {0, 2, 4, 8}} :
            Followed(of)]_vars

\* configuration.md: "Other text in a message is displayed literally."  The message
\* of a rule is shown as the cause.
CauseShown == \A text \in Texts : text.of = <<"cause">> => Fits(text)

\* network.md: "It presents the same information as the LCD".  A backup that the LCD
\* shows differently is shown differently on the dashboard.
SameInformation == [][Followed(<<"backup">>)]_vars

=============================================================================
