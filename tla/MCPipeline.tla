------------------------------ MODULE MCPipeline ------------------------------
(***************************************************************************)
(* Sessions to model-check: how the screen is captured, whether the client *)
(* has a graphics channel and which codecs it may negotiate, the H.264     *)
(* backend policy, and what may go wrong.                                  *)
(***************************************************************************)
EXTENDS Pipeline

CONSTANTS t1, t2

Session(mode, egfx, policy, codecs, outcomes, flags) ==
  [mode |-> mode, egfx |-> egfx, policy |-> policy, codecs |-> codecs, outcomes |-> outcomes,
   resize |-> "resize" \in flags, closes |-> "closes" \in flags, layouts |-> "layouts" \in flags,
   fails |-> "fails" \in flags, stops |-> "stops" \in flags,
   repaints |-> "repaints" \in flags]

MCTiles == {t1, t2}
MCScenarios == {
  Session("ext", FALSE, "auto", {}, {"frame"}, {}),
  Session("wlr", FALSE, "auto", {}, {"frame"}, {}),
  Session("ext", FALSE, "auto", {}, {"frame"}, {"resize", "layouts", "fails", "stops"}),
  Session("wlr", FALSE, "auto", {}, {"frame"}, {"fails"}),
  Session("ext", TRUE, "auto", {"avc420"}, {"frame"}, {"closes"}),
  Session("ext", TRUE, "software", {"avc444"}, {"frame", "skip", "refused", "invalid"}, {}),
  Session("ext", TRUE, "vaapi", {"avc420", "clear"}, {"frame", "error"}, {}),
  Session("ext", TRUE, "software", {"clear", "avc420"}, {"frame"}, {"repaints"}),
  Session("dmabuf", TRUE, "auto", {"avc420"}, {"frame", "error"}, {"layouts"}),
  Session("dmabuf", TRUE, "vaapi", {"avc420", "clear"}, {"frame", "refused"}, {"closes"}),
  Session("dmabuf", TRUE, "vaapi", {"avc420"}, {"frame"}, {"resize", "stops", "fails"})}

(* A client that acknowledges every frame, with nothing else going wrong.  *)
MCAcknowledged == {Session("ext", TRUE, "software", {"avc420"}, {"frame"}, {})}
===============================================================================
