----------------------------- MODULE MCPlotter ------------------------------
(* Directories A and C share a file system; moving a plot to B is a copy.    *)
EXTENDS CommandLine

Dirs == {"A/", "B/", "C/"}
Devices == [d \in Dirs |-> IF d = "B/" THEN "nas" ELSE "ssd"]

Set(name, text) == Says(name, "long", Text(text))
Letter(name, text) == Says(name, "short", Text(text))
Switch(name) == Says(name, "long", Text("true"))
WithKeys(rest) == <<Letter("tmpdir", "A/"), Set("farmerkey", "key")>> \o rest \o <<Letter("poolkey", "key")>>
Hex(negative, digits) == [form |-> "number", negative |-> negative, hex |-> TRUE, digits |-> digits]
Many == Says("count", "short", Number(3))

\* Lines that are accepted, for all that the loop over plots tells apart
Plots ==
    {WithKeys(<<Many>>),
     WithKeys(<<Says("count", "equals", Number(-1)), Set("finaldir", "B/")>>),
     WithKeys(<<Many, Letter("finaldir", "C/")>>),
     WithKeys(<<Many, Letter("finaldir", "B/"), Switch("waitforcopy")>>),
     WithKeys(<<Many, Letter("finaldir", "B/"), Says("directout", "short", Empty)>>),
     WithKeys(<<Many, Letter("finaldir", "B/"), Set("stagedir", "C/")>>),
     WithKeys(<<Many, Says("tmpdir2", "equals", Text("B/")), Switch("tmptoggle")>>),
     WithKeys(<<Many, Letter("tmpdir2", "B/"), Together(<<"tmptoggle">>, <<Set("finaldir", "C/")>>)>>),
     WithKeys(<<Letter("finaldir", "B/"), Set("contract", "")>>),
     <<Set("tmpdir", "A/"), Set("contract", "xch1"), Letter("farmerkey", "key"), Letter("finaldir", "B/"),
       Says("count", "short", Number(0))>>}

\* Words for lines that do not get that far, for the farmer key is missing
Words ==
    {Letter("tmpdir", "A/"), Says("tmpdir", "equals", Text("B/")), Set("tmpdir2", "C"), Letter("poolkey", "key"),
     Says("count", "short", Number(-2)), Says("count", "equals", Hex(FALSE, <<2, 10>>)), Says("port", "long", Hex(TRUE, <<15>>)),
     Says("port", "short", Number(40000)), Says("threads", "equals", Number(-32768)), Says("size", "long", [Number(0) EXCEPT !.digits = <<1, 11>>]),
     Switch("waitforcopy"), Says("waitforcopy", "equals", Text("false")), Says("unique", "equals", Text("no")),
     Together(<<"waitforcopy", "directout">>, <<>>),
     Together(<<"unique">>, <<Says("tmpdir2", "short", Number(-2))>>),
     Switch("help"),
     Noise(Text("false")), Noise([form |-> "long", name |-> "final-dir"]), Noise([form |-> "short", letters |-> <<"q", "y">>]),
     Noise(Number(7)), Noise(Number(-7)), Noise([form |-> "end"]), Noise([form |-> "dash", text |-> "-t/mnt/"])}

\* Those whose arguments move others, or take them
Movers == {w \in Words : w.say = "noise"} \cup {Set("tmpdir2", "C"), Letter("poolkey", "key")}

SomeLines == Plots \cup UNION {[1 .. n -> Words] : n \in 0 .. 2} \cup [1 .. 3 -> Movers]
FewLines == Plots
=============================================================================
