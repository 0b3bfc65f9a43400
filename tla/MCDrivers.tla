------------------------------ MODULE MCDrivers ------------------------------
(* The drivers of the repository, and what each of them has to be excused  *)
(* for.  A driver that is not named needs no excuse.                       *)
EXTENDS DriverTables, DriverReading

(* Excuses as sets of drivers, turned into a set of excuses per driver.    *)
PerDriver(excuses) ==
  [d \in DOMAIN AllPrograms |-> {c \in DOMAIN excuses : d \in excuses[c]}]

Instances == {"platform_dummy_ins", "iio_ins", "fake_gpio_ins", "polled_ins",
              "rtc_ins", "pwm_ins", "reg_ins", "eth_ins"}

(* A driver faults ... *)
MCFaultExcuses == PerDriver(
  [failed  |-> {"dummy_char", "platform_dummy_char", "ee24lc512",
                "sdma_scatter_gather", "sdma_single"},
   ignored |-> {"dedicated_workqueue", "shared_workqueue", "vma_list", "fake_eth",
                "gpio_legacy_dt", "gpio_legacy", "gpio_descriptor",
                "input_polled_button", "iio_dummy_random"},
   unmet   |-> {"input_button"},
   woken   |-> {"shared_workqueue"},
   removed |-> {"ee24lc512", "dummy_regulator"},
   busy    |-> {"std_timer", "user_invoke", "waitqueue", "shared_workqueue",
                "sdma_scatter_gather", "sdma_single", "fake_gpio_chip", "mcp23016",
                "fake_pwm"}])

(* ... and leaves things behind.                                           *)
MCLeakExcuses == PerDriver(
  [failed  |-> {"dummy_char", "platform_dummy_char", "ee24lc512", "input_button",
                "input_polled_button", "fake_eth"},
   ignored |-> {"sysfs_poll"},
   unmet   |-> {"input_button"},
   removed |-> {"ee24lc512"} \union Instances,
   busy    |-> {"user_invoke", "waitqueue", "shared_workqueue", "fake_pwm"}])
=============================================================================
