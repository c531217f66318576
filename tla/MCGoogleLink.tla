---------------------------- MODULE MCGoogleLink ----------------------------
(* One user with two accounts linked, a second user who finishes a consent,  *)
(* two processes, and requests that differ in what they ask of Google.       *)
EXTENDS GoogleLink, TLC

Ana == "ana"
Ben == "ben"
MCUsers == {Ana, Ben}
MCLinked == [u \in MCUsers |-> IF u = Ana THEN <<"a", "b">> ELSE <<>>]

Asks(kind, asked, calls) ==
    [kind |-> kind, user |-> Ana, by |-> Ana, fresh |-> TRUE, asked |-> asked, calls |-> calls]
Completes(u, by, fresh) ==
    [kind |-> "complete", user |-> u, by |-> by, fresh |-> fresh, asked |-> "a", calls |-> <<>>]

\* One program of each shape: every call of every kind, alone and before or after another.
MCApp  == {SendMessage(TRUE), CreateFilter(TRUE), CreateDocument(TRUE)}
MCWork == {WorkerCall("drive_update", UpdateFile(FALSE)),
           WorkerCall("docs_append", AppendToDocument),
           WorkerCall("sheets_write", WriteRange(TRUE)),
           WorkerCall("calendar_update", UpdateEvent(TRUE))}
ASSUME MCMenuIsOffered == MCApp \subseteq AppPrograms /\ MCWork \subseteq WorkPrograms
MCMenu ==
    {Completes(Ana, Ana, TRUE), Completes(Ana, Ana, FALSE), Completes(Ben, Ana, TRUE)}
      \cup {Asks("disconnect", x, <<>>) : x \in {"a", None}}
      \cup {Asks("app", x, ReadFile("convertible")) : x \in {"b", None}}
      \cup {Asks("app", None, p) : p \in MCApp}
      \cup {Asks("work", None, p) : p \in MCWork}

ProcessesAlike == Permutations(Workers)
=============================================================================
