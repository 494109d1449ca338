----------------------------- MODULE ModelTemplates -----------------------------
(* The models the workbench offers to start from: BEAM_MODEL_TEMPLATES,
   FRAME_MODEL_TEMPLATES and TRUSS_MODEL_TEMPLATES of
   workbench-model-templates.ts.  A template has neither load cases nor
   combinations; its titles, coordinates, sections and magnitudes are left
   out, and so are the releases of the braces. *)
EXTENDS ModelEditing

(* Bars as <<stem, number, start, end>>. *)
barsOf(list) ==
  Each(list, LAMBDA b : [id |-> Draft(b[1], b[2]), start |-> Draft("N", b[3]), end |-> Draft("N", b[4]),
                         hinges |-> <<>>])
Chain(stem, nodes) == [k \in 1..Len(nodes) - 1 |-> <<stem, k, nodes[k], nodes[k + 1]>>]
SpreadOn(stem, n) == DraftLoad("distributed", NoId, Draft(stem, n))
ForceOn(n) == DraftLoad("nodal", Draft("N", n), NoId)

frameTemplate(supports, bars, loads) ==
  [nodes |-> [k \in DOMAIN supports |-> [FreeNode(Draft("N", k)) EXCEPT !.support = supports[k]]],
   members |-> barsOf(bars), loads |-> loads, cases |-> <<>>, combinations |-> <<>>]
trussTemplate(supports, bars, loaded) ==
  [nodes |-> [k \in DOMAIN supports |-> [id |-> Draft("N", k), support |-> supports[k]]],
   members |-> barsOf(bars), loads |-> Each(loaded, ForceOn), cases |-> <<>>, combinations |-> <<>>]

free(n) == [k \in 1..n |-> "free"]
portal(supports, loads) ==
  frameTemplate(supports \o free(2), <<<<"C", 1, 1, 3>>, <<"B", 1, 3, 4>>, <<"C", 2, 2, 4>>>>, loads)

----------------------------------------------------------------------------
portal_single_bay == portal(<<"fixed", "fixed">>, <<SpreadOn("B", 1), ForceOn(4)>>)

portal_rotational_spring ==
  LET pinned == portal(<<"pinned", "pinned">>, <<SpreadOn("B", 1), ForceOn(4)>>)
  IN [pinned EXCEPT !.nodes[1].springs = <<"rz">>, !.nodes[2].springs = <<"rz">>]

frame_two_bay ==
  frameTemplate(<<"fixed", "fixed", "fixed">> \o free(3),
    <<<<"C", 1, 1, 4>>, <<"C", 2, 2, 5>>, <<"C", 3, 3, 6>>>> \o Chain("B", <<4, 5, 6>>),
    <<SpreadOn("B", 1), SpreadOn("B", 2)>>)

frame_two_story ==
  frameTemplate(<<"fixed", "fixed", "fixed">> \o free(6),
    [k \in 1..6 |-> <<"C", k, k, k + 3>>]
      \o <<<<"B", 1, 4, 5>>, <<"B", 2, 5, 6>>, <<"B", 3, 7, 8>>, <<"B", 4, 8, 9>>>>,
    <<SpreadOn("B", 1), SpreadOn("B", 2), ForceOn(9)>>)

braced_frame ==
  [portal_single_bay EXCEPT !.members = @ \o barsOf(<<<<"BR", 1, 1, 4>>, <<"BR", 2, 2, 3>>>>)]

inclined_member_local_load ==
  frameTemplate(<<"fixed", "roller", "free">>, <<<<"R", 1, 1, 3>>, <<"R", 2, 3, 2>>>>,
    <<SpreadOn("R", 1), SpreadOn("R", 2)>>)

frame_member_point_load ==
  portal(<<"fixed", "fixed">>,
    <<[DraftLoad("member_point", NoId, Draft("B", 1)) EXCEPT !.at = 40], ForceOn(4)>>)

gable_frame ==
  frameTemplate(<<"pinned", "pinned">> \o free(3),
    <<<<"C", 1, 1, 3>>, <<"C", 2, 2, 5>>>> \o Chain("R", <<3, 4, 5>>), <<SpreadOn("R", 1), SpreadOn("R", 2)>>)

FRAME_MODEL_TEMPLATES ==
  {portal_single_bay, portal_rotational_spring, frame_two_bay, frame_two_story, braced_frame,
   inclined_member_local_load, frame_member_point_load, gable_frame}

----------------------------------------------------------------------------
simple_roof_truss ==
  trussTemplate(<<"pinned", "roller">> \o free(2), Chain("M", <<1, 3, 4, 2>>) \o <<<<"M", 4, 1, 4>>, <<"M", 5, 3, 2>>>>,
    <<3, 4>>)

pratt_truss ==
  trussTemplate(<<"pinned">> \o free(3) \o <<"roller">> \o free(3),
    Chain("L", <<1, 2, 3, 4, 5>>) \o Chain("U", <<6, 7, 8>>)
      \o <<<<"V", 1, 2, 6>>, <<"V", 2, 3, 7>>, <<"V", 3, 4, 8>>>>
      \o <<<<"D", 1, 1, 6>>, <<"D", 2, 6, 3>>, <<"D", 3, 3, 8>>, <<"D", 4, 8, 5>>>>,
    <<6, 7, 8>>)

warren_truss ==
  trussTemplate(<<"pinned">> \o free(2) \o <<"roller">> \o free(3),
    Chain("L", <<1, 2, 3, 4>>) \o Chain("U", <<5, 6, 7>>) \o Chain("D", <<1, 5, 2, 6, 3, 7, 4>>), <<5, 6, 7>>)

howe_roof_truss ==
  trussTemplate(<<"pinned">> \o free(2) \o <<"roller">> \o free(3),
    Chain("L", <<1, 2, 3, 4>>) \o Chain("U", <<1, 5, 6, 7, 4>>)
      \o <<<<"V", 1, 2, 5>>, <<"V", 2, 3, 7>>, <<"D", 1, 5, 3>>, <<"D", 2, 2, 6>>>>, <<5, 6, 7>>)

cantilever_truss ==
  trussTemplate(<<"pinned", "pinned">> \o free(4),
    Chain("L", <<1, 3, 5>>) \o Chain("U", <<2, 4, 6>>)
      \o <<<<"V", 1, 1, 2>>, <<"V", 2, 3, 4>>, <<"V", 3, 5, 6>>, <<"D", 1, 2, 3>>, <<"D", 2, 3, 6>>>>, <<5, 6>>)

parallel_chord_truss ==
  trussTemplate(<<"pinned">> \o free(2) \o <<"roller">> \o free(4),
    Chain("L", <<1, 2, 3, 4>>) \o Chain("U", <<5, 6, 7, 8>>)
      \o [k \in 1..4 |-> <<"V", k, k, k + 4>>] \o [k \in 1..3 |-> <<"D", k, k, k + 5>>], <<6, 7>>)

TRUSS_MODEL_TEMPLATES ==
  {simple_roof_truss, pratt_truss, warren_truss, howe_roof_truss, cantilever_truss, parallel_chord_truss}

----------------------------------------------------------------------------
(* lengths are those of the spans, types those of the supports at their ends;
   what a support holds is stated in no template.  Of the loads a template
   switches on one kind. *)
beamTemplate(beamType, lengths, types) ==
  LET spans == [k \in DOMAIN lengths |-> [id |-> Draft("(", k), length |-> lengths[k]]]
  IN [createDefaultBeamWorkspaceState EXCEPT
        !.beamType = beamType, !.spans = spans, !.uniform.on = FALSE,
        !.supports = [k \in DOMAIN types |->
          [id |-> Draft("S", k), x |-> beamSpanBoundaries(spans)[k], type |-> types[k], held |-> Unstated,
           springs |-> {}]]]
UnderUniform(m) == [m EXCEPT !.uniform.on = TRUE]
UnderPoint(m, at) == [m EXCEPT !.points = <<[id |-> Draft("P", 1), at |-> at]>>, !.pointAt = at]

simple_span == beamTemplate("simply_supported", <<6000>>, <<"pinned", "roller">>)
simple_span_uniform == UnderUniform(simple_span)
simple_span_center_point == UnderPoint(simple_span, 50)

cantilever_uniform ==
  [UnderUniform(beamTemplate("cantilever", <<5000>>, <<"fixed">>)) EXCEPT !.pointAt = 100]
cantilever_tip_load == UnderPoint(beamTemplate("cantilever", <<4000>>, <<"fixed">>), 100)

two_span_continuous ==
  UnderUniform(beamTemplate("continuous", <<5000, 5000>>, <<"pinned", "pinned", "roller">>))
three_span_continuous_uniform ==
  UnderUniform(beamTemplate("continuous", <<4000, 4000, 4000>>, <<"pinned", "pinned", "pinned", "roller">>))
three_span_linear ==
  [beamTemplate("continuous", <<4000, 5000, 4000>>, <<"pinned", "pinned", "pinned", "roller">>) EXCEPT
     !.linear = [on |-> TRUE, loads |-> <<[id |-> Draft("L", 1), from |-> 15, to |-> 85]>>]]
unequal_span_continuous_point ==
  UnderPoint(beamTemplate("continuous", <<3500, 5000, 4000>>, <<"pinned", "pinned", "pinned", "roller">>), 44)

fixed_fixed_uniform == UnderUniform(beamTemplate("continuous", <<6000>>, <<"fixed", "fixed">>))
propped_cantilever_point == UnderPoint(beamTemplate("continuous", <<5000>>, <<"fixed", "roller">>), 50)

BEAM_MODEL_TEMPLATES ==
  {simple_span_uniform, simple_span_center_point, cantilever_uniform, cantilever_tip_load, two_span_continuous,
   three_span_continuous_uniform, three_span_linear, unequal_span_continuous_point, fixed_fixed_uniform,
   propped_cantilever_point}
=============================================================================
