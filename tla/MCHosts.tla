------------------------------- MODULE MCHosts -------------------------------
(* The schemas, flows, frames and batch that Hosts.cfg gives to Hosts. *)
EXTENDS Hosts, TLC

Place(id, accepts, type) == [id |-> id, accepts |-> accepts, type |-> type]
Transition(id, from, consumes, to) == [id |-> id, from |-> from, consumes |-> consumes, to |-> to]
Net(places, transitions) == [places |-> places, transitions |-> transitions]
Inlet == Place("in", {"a"}, "Inbound")
Middle == Place("mid", {"b"}, "Internal")
Outlet == Place("out", {"c"}, "Outbound")

\* A line, a loop, a place without a way out, a branch, and two transitions that compete
\* for one token.
SmallSchemas ==
    {Net(<<Inlet, Middle, Outlet>>, <<Transition("t1", "in", {"a"}, to), second>>) :
        to \in {[b |-> "mid"], [b |-> "mid", c |-> "out"]},
        second \in {Transition("t2", "mid", {"b"}, [c |-> "out"]),
                    Transition("t2", "mid", {"b"}, [b |-> "mid", c |-> "out"]),
                    Transition("t2", "in", {"a"}, [c |-> "out"])}}
    \cup {Net(<<Inlet, Place("out", {"b", "c"}, "Outbound")>>,
              <<Transition("t1", "in", {"a"}, [b |-> "out"]), Transition("t2", "in", {"a"}, [c |-> "out"])>>)}

Flow(edges, kinds, skipping) ==
    [id |-> "f", nodes |-> DOMAIN kinds, edges |-> edges, kind |-> kinds, skip |-> skipping]
Automatic == [n1 |-> "http_call", n2 |-> "attribute_op", n3 |-> "merge"]
Interactive == [n1 |-> "llm_call", n2 |-> "user_choice", n3 |-> "wait_until"]

\* A chain, joins (one with a node whose error is skipped), forks, and a cycle.
SmallFlows ==
    {Flow({<<"n1", "n2">>, <<"n2", "n3">>}, Automatic, {}),
     Flow({<<"n1", "n3">>, <<"n2", "n3">>}, Automatic, {"n1"}),
     Flow({<<"n1", "n3">>, <<"n2", "n3">>}, Interactive, {}),
     Flow({<<"n1", "n2">>, <<"n1", "n3">>}, Interactive, {}),
     Flow({<<"n1", "n2">>, <<"n1", "n3">>, <<"n2", "n3">>}, Automatic, {}),
     Flow({<<"n1", "n2">>, <<"n2", "n1">>}, Automatic, {})}

Frame(shape, id, version, method, name) ==
    [shape |-> shape, id |-> id, version |-> version, method |-> method, name |-> name, args |-> TRUE]

\* Lines that are no request, requests of both eras, a notification, a bare tools/call.
SmallFrames ==
    {Frame(shape, FALSE, "none", "ping", "none") : shape \in {"blank", "garbage", "nonobject", "badrpc"}}
    \cup {Frame("badrpc", TRUE, "none", "ping", "none"), Frame("rpc", TRUE, "other", "ping", "none")}
    \cup {Frame("rpc", id, "none", "notifications/initialized", "none") : id \in BOOLEAN}
    \cup {Frame("rpc", TRUE, version, method, "none") :
             version \in {"none", "known"}, method \in {"initialize", "tools/list"}}
    \cup {Frame("rpc", TRUE, version, "tools/call", tool) :
             version \in {"none", "known"}, tool \in {"none", "t1"}}

Text(text) == [kind |-> "data", content |-> text, calls |-> << >>]
ToolCall(index, id, args) ==
    [kind |-> "data", content |-> "none", calls |-> <<[index |-> index, id |-> id, args |-> args]>>]

\* A text, two tool calls whose deltas may alternate, a frame with a text and a call, an
\* empty frame, a comment.
SmallStreamFrames ==
    {Text("a"), Text("none"), [Text("none") EXCEPT !.kind = "other"],
     [ToolCall(1, "z", "none") EXCEPT !.content = "b"],
     ToolCall(0, "x", "none"), ToolCall(0, "none", "p"), ToolCall(0, "none", "q"), ToolCall(1, "y", "r")}

\* The processes of PgRuntime are interchangeable.
ProcSymmetry == Permutations(Procs)

TwoTools == <<"remote", "confirm">>
===============================================================================
