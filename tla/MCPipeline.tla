----------------------------- MODULE MCPipeline -----------------------------
(* Finite instances of Pipeline for TLC. *)
EXTENDS Pipeline

TwoTransforms == <<"ocr", "font_repair">>

AllSteps == Steps
SomeSteps == Steps \ {"postcheck", "font_repair"}
Always == {AllSteps}
Either == {AllSteps, SomeSteps}
=============================================================================
