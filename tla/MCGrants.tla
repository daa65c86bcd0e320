------------------------------ MODULE MCGrants ------------------------------
(* An instance of Grants for TLC: commands of one program and of several, a  *)
(* pattern that fits what another names, a segment that is redirected and    *)
(* one that only assigns; fetches, a read, two MCP tools and a write tool.   *)
EXTENDS Grants

Command(text, parts) == [tool |-> "Bash", kind |-> "bash", by |-> "segments", parts |-> parts, text |-> text]
Fetch(text, parts)   == [tool |-> "WebFetch", kind |-> "fetch", by |-> "targets", parts |-> parts, text |-> text]
Read(path)           == [tool |-> "Read", kind |-> "tool", by |-> "targets", parts |-> {path}, text |-> path]
Named(tool, args)    == [tool |-> tool, kind |-> "mcp", by |-> "name", parts |-> {tool}, text |-> args]
Write                == [tool |-> "Edit", kind |-> "tool", by |-> "name", parts |-> {"Edit"}, text |-> "Edit"]

Shell   == {Command("rg x", {"rg x"}), Command("rg x | jq", {"rg x", "jq"}), Command("jq | rg x", {"rg x", "jq"}),
            Command("rg x; rg > y", {"rg x", "rg > y"}), Command("A=1; jq", {"A=1", "jq"}),
            Command("go test", {"go test"}), Command("go test -v", {"go test"}), Command("go -h | ls", {"go -h", "ls"})}
Fetches == {Fetch("docs, blog", {"docs", "blog"}), Fetch("docs, ip", {"ip", "docs"})}
Others  == {Read("away"), Named("query", "up"), Named("query", "down"), Named("drop", "up"), Write}

AllCalls == Shell \cup Fetches \cup Others
AllParts == UNION {c.parts : c \in AllCalls}
AllTexts == {c.text : c \in AllCalls}

Names1 == [x \in AllParts |->
    CASE x \in {"rg x", "rg > y"} -> "rg *"  [] x = "jq" -> "jq *"
      [] x = "go test" -> "go test *"        [] x = "go -h" -> "go *"
      [] x = "A=1" -> "nothing"              [] OTHER -> x]

AllPatterns == {Names1[x] : x \in AllParts} \ {"nothing"}

Fit == [p \in AllPatterns |->
    CASE p = "rg *" -> {"rg x", "rg > y"} [] p = "jq *" -> {"jq"}
      [] p = "go test *" -> {"go test"}   [] p = "go *" -> {"go -h", "go test"}
      [] OTHER -> {p}]

Refused  == {"rg > y", "ip", "Edit"}
NotAsked == {"Edit"}
=============================================================================
