\* docs/configuration.md:306.
SPECIFICATION Spec
CONSTANTS
  web = web  dns = dns  other = other  six = six
  Addr = {web, dns, other, six}
  V6 = {six}
  Port = {53, 80, 443, 8080}
  Inventories <- MCInventories
  PlaybookFiles <- MCPlaybookFiles
  Events <- MCEvents
  Manual <- MCManual
  Safelisted = {other}
  Foreign <- MCForeign
  Limits <- MCLimits
  DefaultTtl = 60
  Mantissa = 3
  MaxRequests = 2
  None = None
PROPERTIES AllowedPortsExcluded
