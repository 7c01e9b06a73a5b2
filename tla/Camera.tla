------------------------------- MODULE Camera -------------------------------
(***************************************************************************)
(* The po3030k camera (camera/po3030k): the window and the subsampling the *)
(* program asks for are split between the sensor's registers, a timer that *)
(* counts the lines to leave out and a table of the bytes to take in a     *)
(* line (calc.c, registers.c, timers.c); VSYNC and HSYNC interrupts then   *)
(* fill the buffer (timers.c, interrupt.s).  po6030k has the same capture. *)
(***************************************************************************)
EXTENDS Integers, Sequences

CONSTANTS
  ArrayWidth, ArrayHeight,   \* 640 and 480
  OriginX, OriginY,          \* 210 and 7
  LineConf,                  \* size of _po3030k_line_conf: 330
  Requests,                  \* windows: x, y, w, h, zoom_w, zoom_h, bpp
  PromptVsync,               \* the interrupt of VSYNC is served before the next line
  None

VARIABLES
  request,        \* what the program asked for last
  window, sampl_mode, speed, slow_path,  \* sensor registers: corner, subsampling, divider of the pixel clock
  line_conf, blank_row_betw, row,        \* what apply_timer_config leaves
  tmr, pr, ton,   \* the timer that counts HSYNC
  ic, vsync,      \* the input capture of VSYNC is enabled; its flag
  line, synced, frame,        \* next line of the frame, VSYNC has come in it, number of the frame
  current_row, buffer, img_ready

settings == <<request, window, sampl_mode, speed, slow_path, line_conf, blank_row_betw, row>>
timer == <<tmr, pr, ton>>
sensor == <<line, synced, frame>>
capture == <<current_row, buffer, img_ready>>
cameraVars == <<settings, timer, ic, vsync, sensor, capture>>

CameraInit ==
  /\ request = None /\ window = <<0, 0>> /\ sampl_mode = 1 /\ speed = 8 /\ slow_path = FALSE
  /\ line_conf = <<>> /\ blank_row_betw = 0 /\ row = 0
  /\ tmr = 0 /\ pr = 0 /\ ton = FALSE /\ ic = FALSE /\ vsync = FALSE
  /\ line = 0 /\ synced = FALSE /\ frame = 0
  /\ current_row = 0 /\ buffer = <<>> /\ img_ready = FALSE

(* The handler takes its first byte this many pixels after HSYNC.           *)
IRQ_PIX_LAT == 4

(* The program configures and launches between captures.                    *)
Capturing == ic \/ vsync \/ ton

(* po3030k_config_cam, with po3030k_write_cam_registers after it: the       *)
(* subsampling common to both directions is left to the sensor.             *)
Sampling(zoom_h, zoom_w) ==
  CASE zoom_h % 4 = 0 /\ zoom_w % 4 = 0 -> 4
    [] zoom_h % 2 = 0 /\ zoom_w % 2 = 0 /\ ~(zoom_h % 4 = 0 /\ zoom_w % 4 = 0) -> 2
    [] OTHER -> 1
Acceptable(r) ==
  /\ r.zoom_h >= 1 /\ r.zoom_w >= 1
  /\ r.x + r.w <= ArrayWidth /\ r.y + r.h <= ArrayHeight
  /\ r.w % r.zoom_w = 0 /\ r.h % r.zoom_h = 0
(* po3030k_set_speed and the slow loop: divider of the pixel clock.         *)
Speed(s, bpp) == IF bpp = 1 THEN IF s = 1 THEN 4 ELSE 2
                            ELSE 8 \div s
(* po3030k_apply_timer_config: 1 is a byte to take, 2 the end of the line.  *)
Line(pixel_col, bpp, pbp) ==
  [i \in 1 .. pixel_col * bpp * (1 + pbp) |-> IF (i - 1) % (bpp * (1 + pbp)) < bpp THEN 1 ELSE 0] \o <<2>>
\* mutant: the lines are left out at the sensor's scale
BlankLinesOfSensor(r, s) == r.zoom_h - 1
BlankLines(r, s) == r.zoom_h \div s - 1
po3030k_config_cam ==   \* the program is done with the image it has
  /\ ~Capturing
  /\ \E r \in Requests :
       LET s == Sampling(r.zoom_h, r.zoom_w)
           pbp == r.zoom_w \div s - 1
       IN  /\ Acceptable(r) /\ (r.w \div r.zoom_w) * r.bpp * (1 + pbp) + 1 <= LineConf
           /\ request' = r /\ sampl_mode' = s
           /\ window' = <<r.x + OriginX - s * IRQ_PIX_LAT, r.y + OriginY - s>>
           /\ speed' = Speed(s, r.bpp) /\ slow_path' = (r.bpp = 1 /\ s = 4)
           /\ line_conf' = Line(r.w \div r.zoom_w, r.bpp, pbp)
           /\ blank_row_betw' = BlankLines(r, s) /\ row' = r.h \div r.zoom_h
  /\ line' = 0 /\ synced' = FALSE /\ buffer' = <<>>
  /\ UNCHANGED <<timer, ic, vsync, frame, current_row, img_ready>>

(* po3030k_launch_capture: init_hsync sets the counter before the period,   *)
(* and timer_set_period resets it.                                          *)
po3030k_launch_capture ==
  /\ ~Capturing /\ request # None
  /\ current_row' = 0 /\ buffer' = <<>> /\ img_ready' = FALSE
  /\ tmr' = 0 /\ pr' = blank_row_betw + 1 /\ ic' = TRUE /\ vsync' = FALSE
  /\ UNCHANGED <<settings, ton, sensor>>

(* The sensor: VSYNC rises within the first line of the window.             *)
Lines == (OriginY + ArrayHeight + 1 - window[2]) \div sampl_mode
Vsync ==
  /\ line = 1 /\ ~synced /\ synced' = TRUE /\ vsync' = (vsync \/ ic)
  /\ UNCHANGED <<settings, timer, ic, line, frame, capture>>
NextFrame ==
  /\ line = Lines /\ line' = 0 /\ synced' = FALSE /\ frame' = (frame + 1) % 3
  /\ UNCHANGED <<settings, timer, ic, vsync, capture>>

vsync_cb ==
  /\ vsync /\ vsync' = FALSE /\ ton' = TRUE /\ ic' = FALSE
  /\ UNCHANGED <<settings, tmr, pr, sensor, capture>>

(* A line comes; when the timer has counted it, __T4Interrupt reads it at   *)
(* the pace of its loop: 8 cycles a byte, or 16, and two cycles of the      *)
(* processor to one of the sensor's clock.                                  *)
Loop == IF slow_path THEN 16 ELSE 8
Pixel(byte) == (byte * Loop) \div (2 * speed * sampl_mode)
Column(byte) == window[1] + sampl_mode * (IRQ_PIX_LAT + Pixel(byte))
BytesTaken(conf) ==   \* of the first i bytes of a line
  LET taken[i \in 0 .. Len(conf)] == IF i = 0 THEN << >>
                                     ELSE IF conf[i] = 1 THEN Append(taken[i - 1], i - 1)
                                     ELSE taken[i - 1]
  IN  taken
Taken == BytesTaken(line_conf)[Len(line_conf)]
T4Interrupt ==
  /\ tmr' = 0
  /\ buffer' = Append(buffer, [frame |-> frame, y |-> window[2] + line * sampl_mode,
                               x |-> LET taken == Taken IN [i \in 1 .. Len(taken) |-> Column(taken[i])]])
  /\ current_row' = current_row + 1
  /\ img_ready' = (current_row' = row) /\ ton' = (current_row' # row)
Hsync ==
  /\ request # None /\ line < Lines /\ (line = 1 => synced) /\ (PromptVsync => ~vsync)
  /\ line' = line + 1
  /\ \/ ton /\ tmr + 1 = pr /\ T4Interrupt
     \/ ton /\ tmr + 1 # pr /\ tmr' = tmr + 1 /\ UNCHANGED <<ton, capture>>
     \/ ~ton /\ UNCHANGED <<tmr, ton, capture>>
  /\ UNCHANGED <<settings, pr, ic, vsync, synced, frame>>

CameraNext ==
  \/ po3030k_config_cam \/ po3030k_launch_capture
  \/ Vsync \/ NextFrame \/ vsync_cb \/ Hsync

(* When the image is ready it is the window asked for: one line out of each *)
(* zoom_h of the window, all of the same frame, and in each the columns     *)
(* zoom_w apart from the corner on, bpp bytes of each (calc.c:58-186,       *)
(* timers.c:58-132, interrupt.s); and the buffer never takes more lines.    *)
CaptureTrue ==
  /\ Len(buffer) <= row
  /\ img_ready /\ buffer # <<>> =>
       /\ Len(buffer) = request.h \div request.zoom_h
       /\ \A k \in 1 .. Len(buffer) :
            /\ buffer[k].frame = buffer[1].frame
            /\ (buffer[k].y - OriginY - request.y) \div request.zoom_h = k - 1
            /\ Len(buffer[k].x) = request.bpp * (request.w \div request.zoom_w)
            /\ \A i \in 1 .. Len(buffer[k].x) :
                 buffer[k].x[i] = OriginX + request.x + request.zoom_w * ((i - 1) \div request.bpp)
=============================================================================
