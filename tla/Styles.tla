------------------------------- MODULE Styles -------------------------------
(***************************************************************************)
(* The sixteen styles of the built-in display (styles.c).  Each is made    *)
(* once, when it is first asked for, and shared by every object it is      *)
(* added to; five begin with what another one sets.  Of the properties of  *)
(* a style these are kept: the layout of children and its direction, the   *)
(* margins at the sides, the colour behind, and of text the font and the   *)
(* colour.  Colours are named; what a style does not set is not in its     *)
(* domain.  screen.c turns the display and moves the margins with it.      *)
(***************************************************************************)
EXTENDS Naturals, Sequences, Filters

\* Mutant: the other style's init_* comes last.
Over_Last(base, own) ==
    [p \in DOMAIN base \cup DOMAIN own |-> IF p \in DOMAIN base THEN base[p] ELSE own[p]]

\* What init_* does after it has called the init_* of the style it begins with.
Over(base, own) ==
    [p \in DOMAIN base \cup DOMAIN own |-> IF p \in DOMAIN own THEN own[p] ELSE base[p]]

flex_column_space_between == [flow |-> "column"]
flex_center == [layout |-> "flex", flow |-> "column"]
flex_start == Over(flex_center, [layout |-> "flex", flow |-> "column"])
flow_row_space_between == Over(flex_center, [layout |-> "flex", flow |-> "row"])
flow_row_start_center == Over(flow_row_space_between, [layout |-> "flex", flow |-> "row"])
flex_column_start == Over(flow_row_space_between, [layout |-> "flex", flow |-> "column"])
flex_screen == [left |-> 44, right |-> 24, layout |-> "flex", flow |-> "column", bg |-> "black"]
flex_screen_menu == Over(flex_screen, <<>>)
label_font16 == [font |-> "book16", text |-> "white"]
\* Mutant: the style begins with none.
label_font_bold30_Alone == [font |-> "bold30"]
label_font_bold30 == Over(label_font16, [font |-> "bold30"])
header_link == Over(label_font16, [font |-> "book20", text |-> "blue"])
menu_button == [bg |-> "grey", left |-> 16, right |-> 0]
menu_button_label == [font |-> "book20", text |-> "white"]
info_headline_label == [font |-> "book20", text |-> "slate"]
info_content_label == [font |-> "book18", text |-> "white"]
back_button == [bg |-> "grey"]

-----------------------------------------------------------------------------
(* How screens.c uses them.  A container is named after what it holds.     *)

\* The style of the object that directly holds the children.
ContainerStyle ==
    [logo_and_version |-> flex_center,      reboot_in_progress |-> flex_center,
     screen_content |-> flex_start,         header |-> flow_row_space_between,
     cloud_status |-> flow_row_start_center, status |-> flow_row_start_center,
     indicator |-> flow_row_start_center,   addresses |-> flex_column_start,
     menu_items |-> flex_column_start,      info_row |-> flex_column_start,
     info_items |-> flex_column_start,      hold_items |-> flex_column_start]

\* Containers whose children stand side by side: a back button and a title, two indicators, an icon
\* and its label.
SideBySide == {"header", "cloud_status", "status", "indicator"}

\* Every style of text with the style, or the screen's own colour, behind it.
TextOver ==
    {<<t, flex_screen>> : t \in {label_font16, label_font_bold30}}
    \cup {<<t, flex_screen_menu>> : t \in {header_link, info_headline_label, info_content_label}}
    \cup {<<menu_button_label, menu_button>>, <<label_font16, [bg |-> "black"]>>}

-----------------------------------------------------------------------------
(* Styles on an object, by their number.  What is added last goes before   *)
(* the others (lv_obj_add_style); a style comes off by its identity, each  *)
(* time it is there (lv_obj_remove_style).                                 *)

add_style_funcs ==
    <<"flex_column_space_between", "flex_center", "flex_start", "flow_row_space_between",
      "flow_row_start_center", "flex_column_start", "flex_screen", "flex_screen_menu",
      "label_font16", "label_font_bold30", "header_link", "menu_button", "menu_button_label",
      "info_headline_label", "info_content_label", "back_button">>

\* Mutant: a style is left out, and those behind it move up.
remove_style_funcs_Shifted ==
    [i \in 1 .. 15 |-> IF i < 9 THEN add_style_funcs[i] ELSE add_style_funcs[i + 1]]

remove_style_funcs ==
    <<"flex_column_space_between", "flex_center", "flex_start", "flow_row_space_between",
      "flow_row_start_center", "flex_column_start", "flex_screen", "flex_screen_menu",
      "label_font16", "label_font_bold30", "header_link", "menu_button", "menu_button_label",
      "info_headline_label", "info_content_label", "back_button">>

add_style(obj, styleIndex) == <<add_style_funcs[styleIndex + 1]>> \o obj

remove_style(obj, styleIndex) ==
    Filtered(obj, {i \in DOMAIN obj : obj[i] # remove_style_funcs[styleIndex + 1]})

-----------------------------------------------------------------------------
(* The display as the process sees it: how LVGL has turned it, and the     *)
(* margins of the shared flex_screen and flex_screen_menu.                 *)

Side(style) == [left |-> style.left, right |-> style.right]

\* Mutant: any number is taken.
Turn_Any(turned, rotation) == rotation

\* lv_display_set_rotation; any other number is logged and passed over.
Turn(turned, rotation) == IF rotation \in {0, 90, 180, 270} THEN rotation ELSE turned

\* Mutant: only a quarter turn moves the margins.
Margins_Once(side, rotation) ==
    IF rotation = 90 THEN [left |-> 24, right |-> 44] ELSE side

\* The margins a rotation sets on flex_screen; half a turn and none leave them.
Margins(side, rotation) ==
    CASE rotation = 90  -> [left |-> 24, right |-> 44]
      [] rotation = 270 -> [left |-> 44, right |-> 24]
      [] OTHER -> side

lvgl_set_rotation(d, rotation) ==
    [d EXCEPT !.turned = Turn(@, rotation), !.side = Margins(@, rotation)]

\* lvgl_init: LVGL starts unturned, and makes the styles when lvgl_set_rotation asks for them.
lvgl_init(rotation) ==
    lvgl_set_rotation([turned |-> 0, side |-> Side(flex_screen), menu |-> Side(flex_screen_menu)],
                      rotation)

=============================================================================
