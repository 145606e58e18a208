----------------------------- MODULE ApolloStart -----------------------------
(***************************************************************************)
(* apollo-v2 from main on: the network thread with the DHCP client and its *)
(* callback (net.c, web.c), the storage thread (storage.c), the display    *)
(* thread that waits for it, and the backlight, which the display thread,  *)
(* the screen key, the card of the panel and the web set (display.c).      *)
(***************************************************************************)
EXTENDS Naturals, FiniteSets

CONSTANTS
  Lease, Fallback,   \* addresses: the server's, CONFIG_APOLLO_NET_FALLBACK_ADDR
  SdRetryMax,        \* SD_RETRY_MAX
  MaxLease, MaxTouch \* bounds: leases; presses of WK_UP, the card and the web's button

ASSUME ApolloStartAssumption == Fallback \notin Lease /\ SdRetryMax \in Nat \ {0}

NoAddr == "none"
Mount == {"sd", "qspi"}
Untried == "untried"

VARIABLES
  net,               \* net_thread: where it is
  iface_up, iface,   \* net_if_is_up; the addresses of the interface
  dhcp,              \* the DHCP client
  lease_sem, dhcp_active, ip_buf, ip_source,
  http,              \* apollo_web_start: started, and what http_server_start said
  refused,           \* history: the interface refused the fallback address
  leases,
  stor,              \* storage_thread: where it is, attempt
  info, mounts_sem,
  disp, lcd_dev,     \* display_thread: where it is; lcd_dev is set
  overdue,           \* history: the wait for the mounts ran out
  screen_on, wk_up,  \* screen_key_cb: where it is
  card_on,           \* out_cards[OUT_BL].on
  lit, blanked,      \* the backlight and the panel
  swayed,            \* history: lit is of another writer than WK_UP
  touches,
  shown              \* the address in main's last status line

netVars == <<net, iface_up, iface, dhcp, lease_sem, dhcp_active, ip_buf, ip_source, http, refused, leases>>
storVars == <<stor, info, mounts_sem>>
panelVars == <<lcd_dev, screen_on, wk_up, card_on, lit, blanked, swayed, touches>>
startVars == <<netVars, storVars, disp, overdue, panelVars, shown>>

(* main; http_server_start has a thread of its own to bind. *)
StartInit ==
  /\ net = "iface" /\ iface_up = FALSE /\ iface = {} /\ dhcp = "off"
  /\ lease_sem = 0 /\ dhcp_active = FALSE /\ ip_buf = NoAddr /\ ip_source = "NONE"
  /\ http = Untried /\ refused = FALSE /\ leases = 0
  /\ stor = [at |-> "probe", attempt |-> 1] /\ mounts_sem = 0
  /\ info = [m \in Mount |-> FALSE]
  /\ disp = "begin" /\ lcd_dev = FALSE /\ overdue = FALSE
  /\ screen_on = TRUE /\ wk_up = "idle" /\ card_on = FALSE
  /\ lit = FALSE /\ blanked = TRUE /\ swayed = FALSE /\ touches = 0
  /\ shown = NoAddr

-----------------------------------------------------------------------------
(* Network.  The callback runs on a cooperative thread, before net_thread  *)
(* goes on.                                                                *)

Hears(a) ==
  IF dhcp_active
  THEN ip_buf' = a /\ ip_source' = "DHCP" /\ lease_sem' = 1
  ELSE UNCHANGED <<ip_buf, ip_source, lease_sem>>

CableIn ==
  /\ ~iface_up /\ iface_up' = TRUE
  /\ UNCHANGED <<net, iface, dhcp, lease_sem, dhcp_active, ip_buf, ip_source, http, refused, leases>>

Leased(a) ==
  /\ dhcp = "asking" /\ leases < MaxLease
  /\ dhcp' = "bound" /\ iface' = iface \cup {a} /\ leases' = leases + 1
  /\ Hears(a)
  /\ UNCHANGED <<net, iface_up, dhcp_active, http, refused>>

(* The lease ends or the cable is pulled; nobody is told. *)
Lapses ==
  /\ dhcp = "bound" /\ dhcp' = "asking" /\ iface' = iface \ Lease
  /\ UNCHANGED <<net, iface_up, lease_sem, dhcp_active, ip_buf, ip_source, http, refused, leases>>

(* Five seconds for the interface.  Without it the thread ends at the      *)
(* fallback address, and the web server is never started.                  *)
Asks ==
  /\ net = "iface" /\ iface_up
  /\ net' = "lease" /\ lease_sem' = 0 /\ dhcp_active' = TRUE /\ dhcp' = "asking"
  /\ UNCHANGED <<iface_up, iface, ip_buf, ip_source, http, refused, leases>>

NoIface ==
  /\ net = "iface" /\ ~iface_up /\ net' = "fall-alone"
  /\ UNCHANGED <<iface_up, iface, dhcp, lease_sem, dhcp_active, ip_buf, ip_source, http, refused, leases>>

TakesLease ==
  /\ net = "lease" /\ lease_sem = 1 /\ lease_sem' = 0 /\ net' = "web"
  /\ UNCHANGED <<iface_up, iface, dhcp, dhcp_active, ip_buf, ip_source, http, refused, leases>>

NoLease ==
  /\ net = "lease" /\ lease_sem = 0 /\ net' = "stop"
  /\ UNCHANGED <<iface_up, iface, dhcp, lease_sem, dhcp_active, ip_buf, ip_source, http, refused, leases>>

\* a plausible bug: the client goes on beside the fallback address
LeavesDhcp ==
  /\ net = "stop" /\ net' = "fall"
  /\ UNCHANGED <<iface_up, iface, dhcp, lease_sem, dhcp_active, ip_buf, ip_source, http, refused, leases>>

(* net_dhcpv4_stop gives back what came after the timeout. *)
StopsDhcp ==
  /\ net = "stop" /\ dhcp' = "off" /\ iface' = iface \ Lease /\ net' = "fall"
  /\ UNCHANGED <<iface_up, lease_sem, dhcp_active, ip_buf, ip_source, http, refused, leases>>

After == IF net = "fall-alone" THEN "end" ELSE "web"

(* The address is added before it is named; the callback is told of it.    *)
FallsBack ==
  /\ net \in {"fall", "fall-alone"} /\ dhcp_active' = FALSE
  /\ \/ /\ iface' = iface \cup {Fallback}
        /\ ip_buf' = Fallback /\ ip_source' = "STATIC_FALLBACK" /\ UNCHANGED refused
     \/ refused' = TRUE /\ UNCHANGED <<iface, ip_buf, ip_source>>
  /\ net' = After
  /\ UNCHANGED <<iface_up, dhcp, lease_sem, http, leases>>

WebStarts ==
  /\ net = "web" /\ net' = "end"
  /\ http' \in {"listens", "failed"}
  /\ UNCHANGED <<iface_up, iface, dhcp, lease_sem, dhcp_active, ip_buf, ip_source, refused, leases>>

NetNext ==
  \/ CableIn \/ (\E a \in Lease : Leased(a)) \/ Lapses
  \/ Asks \/ NoIface \/ TakesLease \/ NoLease \/ StopsDhcp \/ FallsBack \/ WebStarts

-----------------------------------------------------------------------------
(* Storage *)

(* probe_qspi and probe_sdram only set flags that the status shows. *)
Probes == stor.at = "probe" /\ stor' = [stor EXCEPT !.at = "sd"] /\ UNCHANGED <<info, mounts_sem>>

(* disk_access_init, every two seconds. *)
SdTried ==
  /\ stor.at = "sd"
  /\ \/ stor' = [stor EXCEPT !.at = "fat"]
     \/ /\ stor.attempt < SdRetryMax /\ stor' = [stor EXCEPT !.attempt = @ + 1]
     \/ /\ stor.attempt = SdRetryMax /\ stor' = [stor EXCEPT !.at = "lfs"]
  /\ UNCHANGED <<info, mounts_sem>>

Mounts(m, at, next) ==
  /\ stor.at = at /\ stor' = [stor EXCEPT !.at = next]
  /\ \/ info' = [info EXCEPT ![m] = TRUE]
     \/ UNCHANGED info
  /\ UNCHANGED mounts_sem
MountsSd == Mounts("sd", "fat", "lfs")
\* the first mount may fail, then mkfs
MountsQspi == Mounts("qspi", "lfs", "give")

\* a plausible bug: the display is let go before the QSPI is mounted
GivesEarly ==
  /\ stor.at = "lfs" /\ mounts_sem = 0 /\ mounts_sem' = 1 /\ UNCHANGED <<stor, info>>

Gives ==
  /\ stor.at = "give" /\ stor' = [stor EXCEPT !.at = "end"] /\ mounts_sem' = 1
  /\ UNCHANGED info

StorNext == Probes \/ SdTried \/ MountsSd \/ MountsQspi \/ Gives

-----------------------------------------------------------------------------
(* Panel.  disp: "begin", "wait", "light", "unblank", "build", "run", "end" *)

DispBegins ==
  /\ disp = "begin" /\ lcd_dev' = TRUE /\ disp' = "wait"
  /\ UNCHANGED <<overdue, mounts_sem, screen_on, wk_up, card_on, lit, blanked, swayed, touches>>

(* storage_wait_mounts: 30 seconds at most. *)
DispWaits ==
  /\ disp = "wait" /\ disp' = "light"
  /\ \/ mounts_sem = 1 /\ mounts_sem' = 0 /\ UNCHANGED overdue
     \/ mounts_sem = 0 /\ overdue' = TRUE /\ UNCHANGED mounts_sem
  /\ UNCHANGED panelVars

DispLights ==
  /\ disp = "light" /\ lit' = TRUE /\ swayed' = ~screen_on
  /\ disp' \in {"unblank", "end"}
  /\ UNCHANGED <<overdue, mounts_sem, lcd_dev, screen_on, wk_up, card_on, blanked, touches>>

DispUnblanks ==
  /\ disp = "unblank" /\ blanked' = FALSE /\ disp' = "build"
  /\ swayed' = (swayed \/ ~screen_on)
  /\ UNCHANGED <<overdue, mounts_sem, lcd_dev, screen_on, wk_up, card_on, lit, touches>>

(* build_home and build_files; ui_font reads the font of the QSPI flash.   *)
Builds ==
  /\ disp = "build" /\ disp' = "run"
  /\ UNCHANGED <<overdue, mounts_sem, panelVars>>

(* WK_UP *)
KeyToggles ==
  /\ wk_up = "idle" /\ lcd_dev /\ touches < MaxTouch /\ touches' = touches + 1
  /\ screen_on' = ~screen_on /\ wk_up' = "light" /\ swayed' = FALSE
  /\ UNCHANGED <<disp, overdue, mounts_sem, lcd_dev, card_on, lit, blanked>>

KeyLights ==
  /\ wk_up = "light" /\ lit' = screen_on /\ wk_up' = "blank"
  /\ UNCHANGED <<disp, overdue, mounts_sem, lcd_dev, screen_on, card_on, blanked, swayed, touches>>

\* a plausible bug: the panel is left as it was when the light goes out
KeyUnblanks ==
  /\ wk_up = "blank" /\ blanked' = FALSE /\ wk_up' = "idle"
  /\ UNCHANGED <<disp, overdue, mounts_sem, lcd_dev, screen_on, card_on, lit, swayed, touches>>

KeyBlanks ==
  /\ wk_up = "blank" /\ blanked' = ~screen_on /\ wk_up' = "idle"
  /\ UNCHANGED <<disp, overdue, mounts_sem, lcd_dev, screen_on, card_on, lit, swayed, touches>>

(* The card and the web set the light alone; the card shows what it set.   *)
CardTaps ==
  /\ disp = "run" /\ touches < MaxTouch /\ touches' = touches + 1
  /\ card_on' = ~card_on /\ lit' = ~card_on /\ swayed' = TRUE
  /\ UNCHANGED <<disp, overdue, mounts_sem, lcd_dev, screen_on, wk_up, blanked>>

WebLights ==
  /\ http = "listens" /\ touches < MaxTouch /\ touches' = touches + 1
  /\ lit' \in BOOLEAN /\ swayed' = TRUE
  /\ UNCHANGED <<disp, overdue, mounts_sem, lcd_dev, screen_on, wk_up, card_on, blanked>>

PanelNext ==
  \/ DispBegins \/ DispWaits \/ DispLights \/ DispUnblanks \/ Builds
  \/ KeyToggles \/ KeyLights \/ KeyBlanks \/ CardTaps \/ WebLights

(* The loop of main. *)
StatusLine ==
  /\ shown' = IF ip_source = "NONE" THEN NoAddr ELSE ip_buf
  /\ UNCHANGED <<netVars, storVars, disp, overdue, panelVars>>

StartNext ==
  \/ NetNext /\ UNCHANGED <<storVars, disp, overdue, panelVars, shown>>
  \/ StorNext /\ UNCHANGED <<netVars, disp, overdue, panelVars, shown>>
  \/ PanelNext /\ UNCHANGED <<netVars, stor, info, shown>>
  \/ StatusLine

StartSpec == StartInit /\ [][StartNext]_startVars

-----------------------------------------------------------------------------
(* Properties *)

(* net.c:132: once net_thread has decided, the address that status line,   *)
(* web page and screen show is the one the interface has, and a lease does *)
(* not stand beside the fallback, however late the server answers.  Unless *)
(* a lease was lost since, or the interface took no address: both leave    *)
(* the old name.                                                           *)
AddressTrue ==
  net \in {"web", "end"} /\ ip_source # "NONE" /\ ~refused
    /\ ~(ip_source = "DHCP" /\ dhcp # "bound")
  => iface = {ip_buf}

(* display.c:672: the screens are built, and with them the font read, when *)
(* no mount is under way, unless the wait ran out.                         *)
FontApart == disp = "build" /\ ~overdue => stor.at = "end"

(* display.c:218: after a press the light and the panel are both as        *)
(* screen_on says, whatever the display thread was doing, until the        *)
(* display's own start, the card or the web sets one of them.              *)
ScreenAgrees == wk_up = "idle" /\ ~swayed /\ disp = "run" => lit = screen_on /\ blanked = ~screen_on

(* All three, of the threads main starts. *)
BringUp == AddressTrue /\ FontApart /\ ScreenAgrees
=============================================================================
