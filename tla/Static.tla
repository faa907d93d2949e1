--------------------------------- MODULE Static ---------------------------------
(***************************************************************************)
(* handleStatic (internal/server/server.go): the embedded frontend.  The   *)
(* handler looks the path up first, and then hands the request, as it      *)
(* came, to net/http's FileServer, which looks it up again and answers     *)
(* some requests with a redirect.  The browser follows those.              *)
(*                                                                         *)
(* The names in the root of the file system are enough: "index" is         *)
(* index.html, the others any.  A request is a name, "root" for none, and  *)
(* whether a slash follows it.                                             *)
(***************************************************************************)
EXTENDS FiniteSets

CONSTANT Names      \* the other names a browser asks for

\* stated as an assumption where the constants get their values
StaticAssumption == Names \cap {"root", "index"} = {}

VARIABLES
    fs,             \* what the names are: "none", "file", "dir"; or Nil
    path,           \* the request of the browser
    slash,
    asked,          \* the name of its first request (history)
    answer          \* "none" yet, "welcome", "notfound", "listing", or a name: its content

vars == <<fs, path, slash, asked, answer>>

Nil == [n \in {} |-> "none"]
Kinds == {"none", "file", "dir"}

Init ==
    /\ fs \in {f \in [Names \cup {"index"} -> Kinds] : f["index"] # "dir"} \cup {Nil}
    /\ path \in Names \cup {"root", "index"} /\ asked = path
    /\ slash \in BOOLEAN /\ (path = "root" => slash)
    /\ answer = "none"

-----------------------------------------------------------------------------
(* net/http, external: FileServer.                                         *)

Reply(a) == answer' = a /\ UNCHANGED <<fs, path, slash, asked>>
Redirect(p, s) == path' = p /\ slash' = s /\ UNCHANGED <<fs, asked, answer>>

\* asked for name p, with a slash or without: /index.html goes to /, a directory
\* gets a slash and a file loses it
FileServer(p, s) ==
    CASE p = "index" /\ ~s -> Redirect("root", TRUE)
      [] p = "root" -> Reply(IF fs["index"] = "file" THEN "index" ELSE "listing")
      [] OTHER -> \/ fs[p] = "none" /\ Reply("notfound")
                  \/ fs[p] = "file" /\ IF s THEN Redirect(p, FALSE) ELSE Reply(p)
                  \/ fs[p] = "dir" /\ IF s THEN Reply("listing") ELSE Redirect(p, TRUE)

-----------------------------------------------------------------------------
(* handleStatic.                                                           *)

\* there is no frontend in the binary
Welcome == /\ answer = "none" /\ fs = Nil
           /\ Reply("welcome")

\* the path without its first slash, index.html for none; a name followed by a
\* slash is none that fs.FS opens
Wanted == IF path = "root" THEN "index" ELSE path
Opens == (path = "root" \/ ~slash) /\ fs[Wanted] # "none"

\* what is looked up: the file, or index.html instead
Found == IF Opens THEN Wanted ELSE "index"

\* nothing is found, or a directory
NotFound == /\ answer = "none" /\ fs # Nil
            /\ fs[Found] # "file"
            /\ Reply("notfound")

\* mutant: what was found is asked for
Serve_Rewritten == /\ answer = "none" /\ fs # Nil
                   /\ fs[Found] = "file"
                   /\ FileServer(Found, FALSE)

\* a file is found: the request goes to FileServer as it came
Serve == /\ answer = "none" /\ fs # Nil
         /\ fs[Found] = "file"
         /\ FileServer(path, slash)

Next == Welcome \/ NotFound \/ Serve

\* Fairness: the server answers and the browser follows a redirect.
Fairness == WF_vars(Next)

Spec == Init /\ [][Next]_vars /\ Fairness

-----------------------------------------------------------------------------
(* Properties.                                                             *)

\* the frontend was built into the binary
Built == fs # Nil /\ fs["index"] = "file"

\* what was asked for, if it is the page or a file of the frontend
Right ==
    Built =>
        /\ asked \in {"root", "index"} => answer = "index"
        /\ asked \in Names /\ fs[asked] = "file" => answer = asked

\* Every request is answered: its redirects come to an end, what handleStatic passes
\* on is never sent back to where it came from.  And a request for the page or for a
\* file of the frontend, however it is spelled and redirected, gets that file:
\* handleStatic's two look-ups agree on it.
FilesArrive == <>(answer # "none" /\ Right)
=============================================================================
