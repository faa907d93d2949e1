---------------------------------- MODULE Links ----------------------------------
(***************************************************************************)
(* The link of a container: its label goseeit.url, read by the Docker      *)
(* collector (extractContainerURL, internal/collector/docker.go) and made  *)
(* an address by the page (formatContainerUrl,                             *)
(* components/DockerSection.tsx), which does not pass it to the browser as *)
(* it is.  A text is what it begins with and the parts it names; it is an  *)
(* http URL or an abbreviation of one, other schemes are left out.         *)
(***************************************************************************)
EXTENDS Naturals

CONSTANTS
    Schemes,        \* http and https, in any case
    PageHost,
    Host,           \* a host that a label names
    Path,           \* a path that a label names
    Ports,          \* bound: the ports; 0 for none
    Slashes         \* two slashes and what follows, read as a path

\* stated as an assumption where the constants get their values
LinksAssumption ==
    /\ "http" \in Schemes /\ 0 \in Ports /\ Ports \subseteq Nat
    /\ PageHost # Host /\ Slashes # Path

VARIABLES
    label,          \* of the container: a text
    page            \* the location of the dashboard in the browser

vars == <<label, page>>

\* what a text begins with; "none" is no label, "empty" nothing
Starts == {"none", "empty", "scheme", "//", ":", "/", "host"}
Labels == [start : Starts, blanks : BOOLEAN, scheme : Schemes, port : Ports]
Locations == [scheme : Schemes, host : {PageHost}, port : Ports]

\* another container, or the dashboard at another address
Init == label \in Labels /\ page \in Locations
Next == label' \in Labels /\ page' \in Locations

Spec == Init /\ [][Next]_vars

-----------------------------------------------------------------------------
Trim(t) == [t EXCEPT !.blanks = FALSE]

\* begins with p; two slashes begin with one
StartsWith(t, p) == ~t.blanks /\ (t.start = p \/ (p = "/" /\ t.start = "//"))

\* no label, or nothing but blanks: the empty text
ExtractContainerURL ==
    IF label.start = "none" THEN [label EXCEPT !.start = "empty", !.blanks = FALSE]
    ELSE Trim(label)

URL(scheme, host, port, path) ==
    [scheme |-> scheme, host |-> host, port |-> port, path |-> path]

\* window.location.origin before the text
AtOrigin(t) ==
    URL(page.scheme, page.host, page.port, IF t.start = "/" THEN Path ELSE Slashes)

\* mutant: one slash is looked for before two
FormatContainerUrl_OneSlashFirst(text) ==
    LET t == Trim(text)
    IN  CASE StartsWith(t, "scheme") -> URL(t.scheme, Host, t.port, Path)
          [] StartsWith(t, "/") -> AtOrigin(t)
          [] StartsWith(t, ":") -> URL(page.scheme, page.host, t.port, Path)
          [] StartsWith(t, "host") -> URL("http", Host, t.port, Path)

\* the tests in their order: each is of the texts that the ones before did not take
FormatContainerUrl(text) ==
    LET t == Trim(text)
    IN  CASE StartsWith(t, "scheme") -> URL(t.scheme, Host, t.port, Path)
          [] StartsWith(t, "//") -> URL(page.scheme, Host, t.port, Path)
          [] StartsWith(t, ":") -> URL(page.scheme, page.host, t.port, Path)
          [] StartsWith(t, "/") /\ ~StartsWith(t, "//") -> AtOrigin(t)
          [] StartsWith(t, "host") -> URL("http", Host, t.port, Path)

\* the link of the row, if there is one
Linked == ExtractContainerURL.start # "empty"
Link == FormatContainerUrl(ExtractContainerURL)

-----------------------------------------------------------------------------
(* Properties.                                                             *)

\* The link leads to what the label names and takes the rest from the address of the
\* dashboard, as a browser resolves a reference (and goseeit.url is documented,
\* README.md:186, 194): a label that names a host never leads to the dashboard's own,
\* one that names none never leaves it, and the dashboard's port goes with its path
\* only.
LeadsWhereItSays ==
    Linked =>
        /\ Link.path = Path
        /\ Link.host = IF label.start \in {"scheme", "//", "host"} THEN Host ELSE PageHost
        /\ Link.port = IF label.start = "/" THEN page.port ELSE label.port
        /\ label.start = "scheme" => Link.scheme = label.scheme
        /\ label.start \in {"//", ":", "/"} => Link.scheme = page.scheme
=============================================================================
