---------------------------- MODULE GoogleCalls ----------------------------
(* What each operation on a user's Google account asks of Google, in order   *)
(* (google_service.py, google_workspace.py), which operations the routes     *)
(* offer to the app, and which the work thread on the user's PC may run      *)
(* (google_worker.py).  A program is the sequence of the calls to Google:    *)
(*   "get"     reads;                                                        *)
(*   "change"  makes something of the account's own, or alters one nobody    *)
(*             else can see;                                                 *)
(*   "touch"   renames, moves, bins, copies in place or alters a file or an  *)
(*             event the caller names, which may be shared;                  *)
(*   "put"     writes into a file or folder the caller names;                *)
(*   "send"    reaches other people: mail, an invitation, a share, a formula *)
(*             that fetches an address;                                      *)
(*   "copy", "export", "delete"  the temporary document of a conversion;     *)
(*   "check"   asks whether the file a "put" goes to is shared;              *)
(*   "refuse"  no call: the arguments are refused with ValueError.           *)
(* What is read or written is left out; a list answers with one item.        *)
EXTENDS Sequences, SequencesExt

Get    == <<"get">>
Change == <<"change">>
Touch  == <<"touch">>
Put    == <<"put">>
Send   == <<"send">>
Refuse == <<"refuse">>
Which(yes, p, q) == IF yes THEN p ELSE q

---------------------------------------------------------------------------
(* Gmail and Calendar: google_service.py *)
ListMessages       == Get \o Get          \* the listing, then each message
ReadMessage        == Get
Compose(reply)     == Which(reply, Get, <<>>)
SendMessage(reply) == Compose(reply) \o Send
CreateDraft(reply) == Compose(reply) \o Change
ListDrafts         == Get \o Get
SendDraft          == Send
AttachmentBytes    == Get
ReadAttachment     == AttachmentBytes
ListLabels         == Get
CreateLabel        == Change
ModifyLabels       == Change
TrashMessage       == Change
UntrashMessage     == Change
ListFilters        == Get
CreateFilter(forward) == Which(forward, Refuse, Change)
DeleteFilter       == Change
ArchiveMessage     == Change
ListEvents         == Get
CreateEvent(attendees) == Which(attendees, Send, Change)
UpdateEvent(attendees) == Which(attendees, Send, Touch)
DeleteEvent        == Touch

(* Drive, Docs, Sheets, Slides, Contacts, Tasks: google_workspace.py *)
SearchFiles        == Get
\* The copy has no folder named, so Drive puts it beside the file it is made of.
TextByConversion   == <<"copy", "export", "delete">>
ReadFile(mime)     == Get \o CASE mime \in {"google", "text"} -> Get
                               [] mime = "convertible"        -> TextByConversion
                               [] mime = "other"              -> <<>>
Upload(into)       == Which(into, Put, Change)
CreateFile(into)   == Upload(into)
SaveAttachment(into) == AttachmentBytes \o Upload(into)
\* Two files: the second may take the message over Gmail's 25 MB.
DriveAttachments(over) == Get \o Get \o Get \o Get \o Which(over, Refuse, <<>>)
WriteFile          == Put
IsShared           == <<"check">>
CreateFolder(into) == Which(into, Put, Change)
\* With a new name only, or a folder to leave, the file itself is what is altered; with
\* a folder to go to, the same request puts it there.
UpdateFile(into)   == Which(into, Put, Touch)
\* No parents are given, so the copy goes into the folder of the file it is made of.
CopyFile           == Touch
SetTrashed         == Touch
ListPermissions    == Get
ShareFile(known)   == Which(known, Send, Refuse)
UnshareFile        == Touch
AppendToDocument   == Put
\* What is appended goes into the document made here, which nobody else sees.
CreateDocument(text) == Change \o Which(text, Change, <<>>)
ReplaceInDocument  == Put
CreateSpreadsheet  == Change
ReadRange(valid)   == Which(valid, Get, Refuse)
WriteRange(fetches) == Which(fetches, Send, Put)
AppendRows(fetches) == Which(fetches, Send, Put)
CreatePresentation == Change
AddSlide           == Put
SearchContacts     == Get
CreateContact      == Change
UpdateContact(fields) == Which(fields, Get \o Change, Refuse)
ListTaskLists      == Get
ListTasks          == Get
CreateTask         == Change
UpdateTask         == Change

---------------------------------------------------------------------------
(* What the routes offer to the signed-in user *)
EachOf(op(_)) == {op(b) : b \in BOOLEAN}

SendRoute  == {f \o SendMessage(r) : f \in EachOf(DriveAttachments) \cup {<<>>}, r \in BOOLEAN}
DraftRoute == {f \o CreateDraft(r) : f \in EachOf(DriveAttachments) \cup {<<>>}, r \in BOOLEAN}
GmailRoutes ==
    {ListMessages, ReadMessage, ListDrafts, SendDraft, ReadAttachment, ListLabels,
     CreateLabel, ModifyLabels, TrashMessage, UntrashMessage, ListFilters, DeleteFilter,
     ArchiveMessage} \cup EachOf(CreateFilter) \cup SendRoute \cup DraftRoute
CalendarRoutes == {ListEvents, DeleteEvent} \cup EachOf(CreateEvent) \cup EachOf(UpdateEvent)
DriveRoutes ==
    {SearchFiles, WriteFile, CopyFile, SetTrashed, ListPermissions, UnshareFile}
      \cup {ReadFile(m) : m \in {"google", "text", "convertible", "other"}}
      \cup EachOf(CreateFile) \cup EachOf(CreateFolder) \cup EachOf(UpdateFile)
      \cup EachOf(ShareFile) \cup EachOf(SaveAttachment)
DocsRoutes ==
    {AppendToDocument, ReplaceInDocument, CreateSpreadsheet, CreatePresentation, AddSlide}
      \cup EachOf(CreateDocument) \cup EachOf(ReadRange) \cup EachOf(WriteRange)
      \cup EachOf(AppendRows)
PeopleRoutes ==
    {SearchContacts, CreateContact, ListTaskLists, ListTasks, CreateTask, UpdateTask}
      \cup EachOf(UpdateContact)
AppPrograms == GmailRoutes \cup CalendarRoutes \cup DriveRoutes \cup DocsRoutes \cup PeopleRoutes

---------------------------------------------------------------------------
(* What the work thread may run: google_worker.py *)
ALLOWED ==
  [gmail_search |-> {ListMessages}, gmail_read |-> {ReadMessage},
   gmail_attachment |-> {ReadAttachment}, gmail_save_attachment |-> EachOf(SaveAttachment),
   gmail_labels |-> {ListLabels}, gmail_create_label |-> {CreateLabel},
   gmail_label |-> {ModifyLabels}, gmail_archive |-> {ArchiveMessage},
   gmail_trash |-> {TrashMessage}, gmail_untrash |-> {UntrashMessage},
   gmail_drafts |-> {ListDrafts}, gmail_draft |-> EachOf(CreateDraft),
   gmail_filters |-> {ListFilters}, calendar_list |-> {ListEvents},
   calendar_create |-> EachOf(CreateEvent), calendar_update |-> EachOf(UpdateEvent),
   calendar_delete |-> {DeleteEvent}, drive_search |-> {SearchFiles},
   drive_read |-> {ReadFile(m) : m \in {"google", "text", "convertible", "other"}},
   drive_create |-> EachOf(CreateFile), drive_write |-> {WriteFile},
   drive_folder |-> EachOf(CreateFolder), drive_update |-> EachOf(UpdateFile),
   drive_copy |-> {CopyFile}, drive_trash |-> {SetTrashed},
   drive_permissions |-> {ListPermissions}, docs_create |-> EachOf(CreateDocument),
   docs_append |-> {AppendToDocument}, docs_replace |-> {ReplaceInDocument},
   sheets_create |-> {CreateSpreadsheet}, sheets_read |-> EachOf(ReadRange),
   sheets_write |-> EachOf(WriteRange), sheets_append |-> EachOf(AppendRows),
   slides_create |-> {CreatePresentation}, slides_add |-> {AddSlide},
   contacts_search |-> {SearchContacts}, contacts_create |-> {CreateContact},
   contacts_update |-> EachOf(UpdateContact), tasks_lists |-> {ListTaskLists},
   tasks_list |-> {ListTasks}, tasks_create |-> {CreateTask}, tasks_update |-> {UpdateTask}]

\* mutant: docs_append is left out of the table.
PutsIntoWithoutDocs == {"drive_create", "drive_folder", "drive_update",
                        "gmail_save_attachment", "drive_write", "docs_replace",
                        "sheets_write", "sheets_append", "slides_add"}

\* The actions that name something to put into, which is looked at first.  What
\* drive_update renames, and what drive_copy and drive_trash name, is not.
PUTS_INTO == {"drive_create", "drive_folder", "drive_update", "gmail_save_attachment",
              "drive_write", "docs_append", "docs_replace", "sheets_write",
              "sheets_append", "slides_add"}

\* _refuse_what_reaches_others: what stands before the program.
RefuseWhatReachesOthers(action, p) ==
    CASE action \in {"sheets_write", "sheets_append"} /\ Contains(p, "send") -> Refuse
      [] action \in PUTS_INTO /\ Contains(p, "put") -> IsShared
      [] OTHER -> <<>>

\* call: what the work thread's request comes to.
WorkerCall(action, p) ==
    IF action \in {"calendar_create", "calendar_update"} /\ Contains(p, "send")
    THEN Refuse
    ELSE RefuseWhatReachesOthers(action, p) \o p

WorkPrograms == UNION {{WorkerCall(a, p) : p \in ALLOWED[a]} : a \in DOMAIN ALLOWED}
=============================================================================
