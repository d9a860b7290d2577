-------------------------------- MODULE Nav --------------------------------
(***************************************************************************)
(* The browser's session history as the app uses it (web/src/lib/nav.ts):  *)
(* what an entry remembers, and what pushing, marking and re-reading it    *)
(* does.  A history is the entries of the tab and the current one; scroll  *)
(* offsets are left out.                                                   *)
(***************************************************************************)
EXTENDS Naturals, Sequences

CONSTANTS
    Home,        \* the query of the landing page (null)
    Query        \* every other query

ASSUME NavAssumption == Home \notin Query

PageKind == {"home", "tx", "address", "block"}

\* "none": null.
NavEntry == [q : Query \cup {Home}, kind : PageKind \cup {"none"},
             prev : PageKind \cup {"none"}]

History == [entries : Seq(NavEntry), at : Nat]

Current(h) == h.entries[h.at]

\* readEntry of a location the app has written no state for.
FreshEntry(q) == [q |-> q, kind |-> "none", prev |-> "none"]

\* Seeded fault: the same search stacks up.
AlwaysPush(cur, q) == TRUE

ShouldPush(cur, q) == cur.q # q

\* Seeded fault: an entry that has shown nothing yet passes on what was
\* before it.
NextEntryInheriting(cur, q) ==
    [q |-> q, kind |-> "none",
     prev |-> IF cur.kind # "none" THEN cur.kind ELSE cur.prev]

NextEntry(cur, q) ==
    [q |-> q, kind |-> "none",
     prev |-> IF cur.kind # "none" THEN cur.kind
              ELSE IF cur.q = Home THEN "home" ELSE "none"]

\* What the back button promises to lead to; it promises nothing of the
\* landing page.
BackLabel(entry) == IF entry.prev = "home" THEN "none" ELSE entry.prev

-----------------------------------------------------------------------------
(* What happens to a history *)

\* history.pushState: the entries after the current one are gone.
Append1(h, e) ==
    [entries |-> Append(SubSeq(h.entries, 1, h.at), e), at |-> h.at + 1]

PushQuery(h, q) ==
    IF ShouldPush(Current(h), q) THEN Append1(h, NextEntry(Current(h), q)) ELSE h

MarkKind(h, kind) == [h EXCEPT !.entries[h.at].kind = kind]
=============================================================================
